---- MODULE Spec2Model ----
(***************************************************************************)
(* Progress scoring, decline detection and risk fusion of the AlzMate      *)
(* backend (progress_tracking.py, combined_analysis.py, main.py).          *)
(*                                                                         *)
(* Scores are kept in hundredths (17.65 is 1765), the resolution the code  *)
(* rounds them to.  A mean of stored scores is kept as an exact fraction   *)
(* [num, den].  Time is counted in ticks, TicksPerDay ticks to a day.      *)
(***************************************************************************)
EXTENDS Integers, Sequences, FiniteSets, TLC

VARIABLES
    now,              \* datetime.now(), in ticks
    progress_scores,  \* the progress_scores collection, in append order
    request,          \* arguments of the call a function specification applies
    response,         \* what the last call returned
    calls,            \* the report calls in flight, one per request worker
    notifications     \* the notifications collection, in append order

vars == <<now, progress_scores, request, response, calls, notifications>>

----------------------------------------------------------------------------
(* Bounds *)

MaxReminders == 2      \* reminders returned by one window query
MaxSessions == 9       \* game_scores documents returned by one window query
MaxScoreValue == 12000 \* largest score (hundredths) fed to get_patient_state
MaxScores == 6         \* documents in progress_scores
MaxWeeks == 2          \* weeks the clock runs through
TicksPerDay == 4       \* clock readings told apart within one day
MaxCalls == 2          \* report calls begun while they are served concurrently
MaxEntries == 4        \* emotion analyses stored for the patient
MaxDates == 4          \* calendar dates the stored analyses fall on

----------------------------------------------------------------------------
(* Values *)

NoneValue == [isNone |-> TRUE]

Some(x) == [isNone |-> FALSE, value |-> x]

NoRequest == [op |-> "none"]

NoResponse == [kind |-> "none"]

\* the threads that serve requests
Workers == {"w1", "w2"}

NoCalls == [w \in Workers |-> [pc |-> "idle"]]

\* round(x, 2) of x = n / d kept in hundredths is RoundDiv(100 * n, d):
\* the nearest integer, a tie going to the even one.
RoundDiv(n, d) ==
    LET q == n \div d
        r == n % d
    IN  IF 2 * r < d THEN q
        ELSE IF 2 * r > d THEN q + 1
        ELSE IF q % 2 = 0 THEN q ELSE q + 1

RECURSIVE SumSeq(_)
SumSeq(s) == IF s = <<>> THEN 0 ELSE Head(s) + SumSeq(Tail(s))

----------------------------------------------------------------------------
(* combined_analysis.py: risk fusion *)

PatientStates == {"stable", "mild_decline", "moderate_decline", "high_risk"}

RiskLevels == {"low", "medium", "high", "critical"}

base_risk_of(patient_state) ==
    CASE patient_state = "stable" -> "low"
      [] patient_state = "mild_decline" -> "medium"
      [] patient_state = "moderate_decline" -> "high"
      [] patient_state = "high_risk" -> "critical"
      [] OTHER -> "medium"

\* a plausible slip: the both-detected branch stops escalating at high
decline_persistence_stage_capped(base_risk, decline_detected, persistent_negative_detected) ==
    IF decline_detected /\ persistent_negative_detected THEN
        [combined_risk |-> IF base_risk = "low" THEN "medium"
                           ELSE IF base_risk = "medium" THEN "high"
                           ELSE base_risk,
         risk_raised |-> TRUE,
         risk_reason |-> <<"Both functional decline and persistent negative emotions detected">>]
    ELSE IF decline_detected THEN
        [combined_risk |-> base_risk, risk_raised |-> FALSE,
         risk_reason |-> <<"Functional decline detected, but emotional state is stable">>]
    ELSE IF persistent_negative_detected THEN
        [combined_risk |-> IF base_risk = "low" THEN "medium" ELSE base_risk,
         risk_raised |-> (base_risk = "low"),
         risk_reason |-> <<"Persistent negative emotions detected, but functional performance is stable">>]
    ELSE
        [combined_risk |-> base_risk, risk_raised |-> FALSE,
         risk_reason |-> <<"No significant issues detected">>]

\* a plausible slip: persistent-negative alone escalates every tier
decline_persistence_stage_eager(base_risk, decline_detected, persistent_negative_detected) ==
    IF persistent_negative_detected THEN
        [combined_risk |-> IF base_risk = "low" THEN "medium"
                           ELSE IF base_risk = "medium" THEN "high"
                           ELSE "critical",
         risk_raised |-> TRUE,
         risk_reason |-> <<"Both functional decline and persistent negative emotions detected">>]
    ELSE
        [combined_risk |-> base_risk, risk_raised |-> FALSE,
         risk_reason |-> IF decline_detected
                         THEN <<"Functional decline detected, but emotional state is stable">>
                         ELSE <<"No significant issues detected">>]

\* a plausible slip: with no issue detected the risk is taken as low
decline_persistence_stage_lowering(base_risk, decline_detected, persistent_negative_detected) ==
    IF decline_detected /\ persistent_negative_detected THEN
        [combined_risk |-> IF base_risk = "low" THEN "medium"
                           ELSE IF base_risk = "medium" THEN "high"
                           ELSE "critical",
         risk_raised |-> TRUE,
         risk_reason |-> <<"Both functional decline and persistent negative emotions detected">>]
    ELSE IF decline_detected THEN
        [combined_risk |-> base_risk, risk_raised |-> FALSE,
         risk_reason |-> <<"Functional decline detected, but emotional state is stable">>]
    ELSE IF persistent_negative_detected THEN
        [combined_risk |-> IF base_risk = "low" THEN "medium" ELSE base_risk,
         risk_raised |-> (base_risk = "low"),
         risk_reason |-> <<"Persistent negative emotions detected, but functional performance is stable">>]
    ELSE
        [combined_risk |-> "low", risk_raised |-> FALSE,
         risk_reason |-> <<"No significant issues detected">>]

\* lines 94-122: the decline/persistence stage
decline_persistence_stage(base_risk, decline_detected, persistent_negative_detected) ==
    IF decline_detected /\ persistent_negative_detected THEN
        [combined_risk |-> IF base_risk = "low" THEN "medium"
                           ELSE IF base_risk = "medium" THEN "high"
                           ELSE IF base_risk = "high" THEN "critical"
                           ELSE "critical",
         risk_raised |-> TRUE,
         risk_reason |-> <<"Both functional decline and persistent negative emotions detected">>]
    ELSE IF decline_detected THEN
        [combined_risk |-> base_risk, risk_raised |-> FALSE,
         risk_reason |-> <<"Functional decline detected, but emotional state is stable">>]
    ELSE IF persistent_negative_detected THEN
        IF base_risk = "low" THEN
            [combined_risk |-> "medium", risk_raised |-> TRUE,
             risk_reason |-> <<"Persistent negative emotions detected, but functional performance is stable">>]
        ELSE
            [combined_risk |-> base_risk, risk_raised |-> FALSE,
             risk_reason |-> <<"Persistent negative emotions detected, but functional performance is stable">>]
    ELSE
        [combined_risk |-> base_risk, risk_raised |-> FALSE,
         risk_reason |-> <<"No significant issues detected">>]

\* a plausible slip: the worsening trend escalates every tier below critical
worsening_trend_stage_unbounded(stage, emotion_trend) ==
    IF emotion_trend = "worsening" /\ stage.combined_risk \in {"low", "medium", "high"} THEN
        [stage EXCEPT !.combined_risk = IF stage.combined_risk = "low" THEN "medium"
                                        ELSE IF stage.combined_risk = "medium" THEN "high"
                                        ELSE "critical",
                      !.risk_reason = Append(stage.risk_reason, "Emotion trend is worsening")]
    ELSE stage

\* a plausible slip: the worsening escalation marks the risk as raised
worsening_trend_stage_raising(stage, emotion_trend) ==
    IF emotion_trend = "worsening" /\ stage.combined_risk \in {"low", "medium"} THEN
        [stage EXCEPT !.combined_risk = IF stage.combined_risk = "low" THEN "medium" ELSE "high",
                      !.risk_raised = TRUE,
                      !.risk_reason = Append(stage.risk_reason, "Emotion trend is worsening")]
    ELSE stage

\* lines 124-130: the additional check for a worsening emotion trend
worsening_trend_stage(stage, emotion_trend) ==
    IF emotion_trend = "worsening" /\ stage.combined_risk \in {"low", "medium"} THEN
        [stage EXCEPT !.combined_risk = IF stage.combined_risk = "low" THEN "medium"
                                        ELSE IF stage.combined_risk = "medium" THEN "high"
                                        ELSE stage.combined_risk,
                      !.risk_reason = Append(stage.risk_reason, "Emotion trend is worsening")]
    ELSE stage

get_risk_recommendation(risk_level) ==
    CASE risk_level = "low" -> "Continue monitoring. Patient is functioning well."
      [] risk_level = "medium" -> "Increased monitoring recommended. Schedule check-in with caregiver."
      [] risk_level = "high" -> "Immediate attention required. Consider medical consultation."
      [] risk_level = "critical" -> "Urgent intervention needed. Contact healthcare provider immediately."
      [] OTHER -> "Monitor closely."

assess_combined_risk(progress_report, emotion_summary, persistent_negative) ==
    LET decline_detected == progress_report.declineDetection.declineDetected
        patient_state == progress_report.patientState
        persistent_negative_detected == persistent_negative.persistentNegativeDetected
        emotion_trend == emotion_summary.trend
        base_risk == base_risk_of(patient_state)
        final == worsening_trend_stage(
                     decline_persistence_stage(base_risk, decline_detected,
                                               persistent_negative_detected),
                     emotion_trend)
    IN  [kind |-> "risk_assessment",
         combinedRiskLevel |-> final.combined_risk,
         baseRiskLevel |-> base_risk,
         riskRaised |-> final.risk_raised,
         reason |-> final.risk_reason,
         declineDetected |-> decline_detected,
         persistentNegativeDetected |-> persistent_negative_detected,
         emotionTrend |-> emotion_trend,
         recommendation |-> get_risk_recommendation(final.combined_risk)]

\* Inputs of assess_combined_risk: every patient state and one the table
\* does not know, both flags, every trend generate_emotion_trend_summary names.
RiskPatientStates == PatientStates \cup {"unknown"}

EmotionTrends == {"worsening", "improving", "stable", "no_data"}

RiskRequests ==
    { [op |-> "assess_combined_risk",
       progress_report |-> [patientState |-> ps,
                            declineDetection |-> [declineDetected |-> d]],
       emotion_summary |-> [trend |-> t],
       persistent_negative |-> [persistentNegativeDetected |-> pn]] :
      ps \in RiskPatientStates, d \in BOOLEAN, t \in EmotionTrends, pn \in BOOLEAN }

InitRisk ==
    /\ now = 0
    /\ progress_scores = <<>>
    /\ request \in RiskRequests
    /\ response = NoResponse
    /\ calls = NoCalls
    /\ notifications = <<>>

AssessCombinedRisk ==
    /\ request.op = "assess_combined_risk"
    /\ response = NoResponse
    /\ response' = assess_combined_risk(request.progress_report,
                                        request.emotion_summary,
                                        request.persistent_negative)
    /\ UNCHANGED <<now, progress_scores, request, calls, notifications>>

NextRisk == AssessCombinedRisk

SpecRisk == InitRisk /\ [][NextRisk]_vars

----------------------------------------------------------------------------
(* progress_tracking.py: weekly score *)

DAYS_IN_WEEK == 7

DECLINE_THRESHOLD_POINTS == 15

DECLINE_CONSECUTIVE_WEEKS == 2

BASELINE_WEEKS == 4

BRAIN_TRAINING_TOTAL == 7

Days(n) == n * TicksPerDay  \* timedelta(days=n)

TASK_WEIGHTS ==
    [medication |-> 3, appointment |-> 3, meal |-> 2, brain_training |-> 2, journal |-> 1]

\* TASK_WEIGHTS.get(task_type, 1)
task_weight(task_type) ==
    IF task_type \in DOMAIN TASK_WEIGHTS THEN TASK_WEIGHTS[task_type] ELSE 1

\* str.lower() on the type strings the model feeds
Lower(s) == IF s = "Meal" THEN "meal" ELSE s

\* What a reminder document holds of interest: type, isCompleted, isMissed.
ReminderTypes == {"medication", "appointment", "meal", "Meal", "brain_training", "journal"}

ReminderStatus == {<<TRUE, FALSE>>, <<FALSE, TRUE>>, <<FALSE, FALSE>>}

Reminders ==
    { [type |-> t, isCompleted |-> st[1], isMissed |-> st[2]] :
      t \in ReminderTypes, st \in ReminderStatus }

SeqsUpTo(S, n) == UNION { [1..k -> S] : k \in 0..n }

\* ticks the clock may move between the two datetime.now() of line 116
ClockGaps == {0, 1}

\* (datetime.now() - (datetime.now() - timedelta(days=7))).days + 1:
\* the left reading is taken first, the right one clock_gap ticks later.
days_in_period(clock_gap) == ((Days(7) - clock_gap) \div TicksPerDay) + 1

\* a plausible slip: a missed reminder earns its weight too
calculate_task_points_missed_earns(reminders, brain_sessions, clock_gap) ==
    LET scored(r) == Lower(r.type) \in {"medication", "appointment", "meal"}
        possible == [i \in 1..Len(reminders) |->
                        IF scored(reminders[i]) THEN task_weight(Lower(reminders[i].type)) ELSE 0]
        earned == [i \in 1..Len(reminders) |->
                        IF scored(reminders[i]) /\ (reminders[i].isCompleted \/ reminders[i].isMissed)
                        THEN task_weight(Lower(reminders[i].type)) ELSE 0]
        brain_weight == task_weight("brain_training")
    IN  [earned_points |-> SumSeq(earned) + brain_sessions * brain_weight,
         total_possible_points |-> SumSeq(possible) + days_in_period(clock_gap) * brain_weight]

\* a plausible slip: no brain-training points expected when no session was played
calculate_task_points_sessions_only(reminders, brain_sessions, clock_gap) ==
    LET scored(r) == Lower(r.type) \in {"medication", "appointment", "meal"}
        possible == [i \in 1..Len(reminders) |->
                        IF scored(reminders[i]) THEN task_weight(Lower(reminders[i].type)) ELSE 0]
        earned == [i \in 1..Len(reminders) |->
                        IF scored(reminders[i]) /\ reminders[i].isCompleted
                        THEN task_weight(Lower(reminders[i].type)) ELSE 0]
        brain_weight == task_weight("brain_training")
    IN  [earned_points |-> SumSeq(earned) + brain_sessions * brain_weight,
         total_possible_points |->
             SumSeq(possible)
             + (IF brain_sessions = 0 THEN 0 ELSE days_in_period(clock_gap) * brain_weight)]

\* brain_sessions is len(brain_sessions), the only use the code makes of the list
calculate_task_points(reminders, brain_sessions, clock_gap) ==
    LET scored(r) == Lower(r.type) \in {"medication", "appointment", "meal"}
        possible == [i \in 1..Len(reminders) |->
                        IF scored(reminders[i]) THEN task_weight(Lower(reminders[i].type)) ELSE 0]
        earned == [i \in 1..Len(reminders) |->
                        IF scored(reminders[i]) /\ reminders[i].isCompleted
                        THEN task_weight(Lower(reminders[i].type)) ELSE 0]
        brain_weight == task_weight("brain_training")
    IN  [earned_points |-> SumSeq(earned) + brain_sessions * brain_weight,
         total_possible_points |-> SumSeq(possible) + days_in_period(clock_gap) * brain_weight]

Count(reminders, P(_)) == Cardinality({ i \in 1..Len(reminders) : P(reminders[i]) })

\* lines 153-171: the breakdown by task type.  The brain_training entry has
\* no 'missed' key, so counting a missed reminder of that type raises KeyError.
breakdown_raises(reminders) ==
    \E i \in 1..Len(reminders) :
        /\ Lower(reminders[i].type) = "brain_training"
        /\ ~reminders[i].isCompleted
        /\ reminders[i].isMissed

breakdown_of(reminders, brain_sessions) ==
    LET of(t) == LET total == Count(reminders, LAMBDA r : Lower(r.type) = t)
                     completed == Count(reminders, LAMBDA r : Lower(r.type) = t /\ r.isCompleted)
                     missed == Count(reminders, LAMBDA r : Lower(r.type) = t /\ ~r.isCompleted /\ r.isMissed)
                 IN  [completed |-> completed, missed |-> missed, total |-> total,
                      points_earned |-> completed * task_weight(t),
                      points_possible |-> total * task_weight(t)]
        bt == of("brain_training")
    IN  [medication |-> of("medication"),
         appointment |-> of("appointment"),
         meal |-> of("meal"),
         brain_training |->
             [completed |-> brain_sessions + bt.completed,
              total |-> BRAIN_TRAINING_TOTAL + bt.total,
              points_earned |-> brain_sessions * 2 + bt.points_earned,
              points_possible |-> BRAIN_TRAINING_TOTAL * 2 + bt.points_possible]]

\* reminders and brain_sessions are what the two window queries returned;
\* t is the clock at the call.
calculate_weekly_score(patient_id, week_start, reminders, brain_sessions, clock_gap, t) ==
    LET start == IF week_start.isNone THEN t - Days(DAYS_IN_WEEK) ELSE week_start.value
        points == calculate_task_points(reminders, brain_sessions, clock_gap)
        score == IF points.total_possible_points = 0 THEN 0
                 ELSE RoundDiv(10000 * points.earned_points, points.total_possible_points)
    IN  IF breakdown_raises(reminders) THEN [kind |-> "error", error |-> "KeyError"]
        ELSE [kind |-> "weekly_score",
              patientId |-> patient_id,
              weekStart |-> start,
              weekEnd |-> t,
              score |-> score,
              earnedPoints |-> points.earned_points,
              totalPossiblePoints |-> points.total_possible_points,
              breakdown |-> breakdown_of(reminders, brain_sessions)]

\* a plausible slip: the bands of STATE_THRESHOLDS, closed at whole numbers
get_patient_state_table(score) ==
    IF score >= 8000 THEN "stable"
    ELSE IF score >= 6000 /\ score <= 7900 THEN "mild_decline"
    ELSE IF score >= 4000 /\ score <= 5900 THEN "moderate_decline"
    ELSE "high_risk"

get_patient_state(score) ==
    IF score >= 8000 THEN "stable"
    ELSE IF score >= 6000 THEN "mild_decline"
    ELSE IF score >= 4000 THEN "moderate_decline"
    ELSE "high_risk"

Patients == {"p1", "p2"}

\* Inputs of the score specification: the function called with an explicit
\* two-week window, and the endpoint, which passes no week_start.
ScoreRequests ==
    { [op |-> op, patient_id |-> "p1", reminders |-> rs, brain_sessions |-> n] :
      op \in {"calculate_weekly_score", "get_weekly_score"},
      rs \in SeqsUpTo(Reminders, MaxReminders), n \in 0..MaxSessions }

InitScore ==
    /\ now = Days(2 * DAYS_IN_WEEK)
    /\ progress_scores = <<>>
    /\ request \in ScoreRequests
    /\ response = NoResponse
    /\ calls = NoCalls
    /\ notifications = <<>>

\* calculate_weekly_score(patient_id, week_start) with week_start two weeks back
CalculateWeeklyScore ==
    /\ request.op = "calculate_weekly_score"
    /\ response = NoResponse
    /\ \E clock_gap \in ClockGaps :
          response' = calculate_weekly_score(request.patient_id,
                                             Some(now - Days(2 * DAYS_IN_WEEK)),
                                             request.reminders, request.brain_sessions,
                                             clock_gap, now)
    /\ UNCHANGED <<now, progress_scores, request, calls, notifications>>

\* main.py get_weekly_score: GET /progress/weekly-score/{patient_id}
get_weekly_score(patient_id, reminders, brain_sessions, clock_gap, t) ==
    LET score_data == calculate_weekly_score(patient_id, NoneValue, reminders,
                                             brain_sessions, clock_gap, t)
    IN  IF score_data.kind = "error" THEN [kind |-> "error", error |-> "HTTP 500"]
        ELSE [k \in DOMAIN score_data \cup {"patientState"} |->
                 IF k = "patientState" THEN get_patient_state(score_data.score)
                 ELSE score_data[k]]

GetWeeklyScore ==
    /\ request.op = "get_weekly_score"
    /\ response = NoResponse
    /\ \E clock_gap \in ClockGaps :
          response' = get_weekly_score(request.patient_id, request.reminders,
                                       request.brain_sessions, clock_gap, now)
    /\ UNCHANGED <<now, progress_scores, request, calls, notifications>>

NextScore == CalculateWeeklyScore \/ GetWeeklyScore

SpecScore == InitScore /\ [][NextScore]_vars

\* Inputs of the patient-state specification: every score in hundredths.
StateRequests == { [op |-> "get_patient_state", score |-> s] : s \in 0..MaxScoreValue }

InitState ==
    /\ now = 0
    /\ progress_scores = <<>>
    /\ request \in StateRequests
    /\ response = NoResponse
    /\ calls = NoCalls
    /\ notifications = <<>>

GetPatientState ==
    /\ request.op = "get_patient_state"
    /\ response = NoResponse
    /\ response' = [kind |-> "patient_state", state |-> get_patient_state(request.score)]
    /\ UNCHANGED <<now, progress_scores, request, calls, notifications>>

NextState == GetPatientState

SpecState == InitState /\ [][NextState]_vars

----------------------------------------------------------------------------
(* progress_tracking.py: stored scores, baseline, decline, weekly report *)

\* .where('patientId', '==', patient_id)
where_patient(collection, patient_id) ==
    SelectSeq(collection, LAMBDA doc : doc.patientId = patient_id)

RECURSIVE InsertByWeekStart(_, _)
InsertByWeekStart(doc, sorted) ==
    IF sorted = <<>> THEN <<doc>>
    ELSE IF doc.weekStart < Head(sorted).weekStart THEN <<doc>> \o sorted
    ELSE <<Head(sorted)>> \o InsertByWeekStart(doc, Tail(sorted))

\* .order_by('weekStart')
RECURSIVE order_by_weekStart(_)
order_by_weekStart(docs) ==
    IF docs = <<>> THEN <<>>
    ELSE InsertByWeekStart(docs[Len(docs)], order_by_weekStart(SubSeq(docs, 1, Len(docs) - 1)))

Reverse(s) == [i \in 1..Len(s) |-> s[Len(s) + 1 - i]]

\* .order_by('weekStart', direction=DESCENDING)
order_by_weekStart_desc(docs) == Reverse(order_by_weekStart(docs))

\* .limit(n)
limit(docs, n) == SubSeq(docs, 1, IF Len(docs) < n THEN Len(docs) ELSE n)

scores_of(docs) == [i \in 1..Len(docs) |-> docs[i].score]

\* a plausible slip: the patientId filter left out of the baseline query
get_baseline_score_unfiltered(collection, patient_id, baseline_weeks) ==
    LET scores == scores_of(limit(order_by_weekStart(collection), baseline_weeks))
    IN  IF Len(scores) < 2 THEN NoneValue
        ELSE [isNone |-> FALSE, num |-> SumSeq(scores), den |-> Len(scores)]

\* a plausible slip: the newest scores taken for the baseline
get_baseline_score_newest(collection, patient_id, baseline_weeks) ==
    LET scores == scores_of(limit(order_by_weekStart_desc(where_patient(collection, patient_id)),
                                  baseline_weeks))
    IN  IF Len(scores) < 2 THEN NoneValue
        ELSE [isNone |-> FALSE, num |-> SumSeq(scores), den |-> Len(scores)]

\* the mean sum(scores) / len(scores) is returned as the fraction num / den
get_baseline_score(collection, patient_id, baseline_weeks) ==
    LET scores == scores_of(limit(order_by_weekStart(where_patient(collection, patient_id)),
                                  baseline_weeks))
    IN  IF Len(scores) < 2 THEN NoneValue
        ELSE [isNone |-> FALSE, num |-> SumSeq(scores), den |-> Len(scores)]

\* (baseline - score) >= DECLINE_THRESHOLD_POINTS, on the exact fraction
drop_reaches_threshold(baseline, score) ==
    baseline.num - baseline.den * score >= DECLINE_THRESHOLD_POINTS * 100 * baseline.den

\* a plausible slip: the confirmation by the recent scores left out
detect_decline_unconfirmed(collection, patient_id, current_score) ==
    LET baseline == get_baseline_score(collection, patient_id, BASELINE_WEEKS)
        decline_detected == drop_reaches_threshold(baseline, current_score)
    IN  IF baseline.isNone THEN
            [declineDetected |-> FALSE, reason |-> "Insufficient baseline data",
             baseline |-> NoneValue, currentScore |-> current_score, difference |-> NoneValue]
        ELSE
            [declineDetected |-> decline_detected,
             baseline |-> baseline,
             currentScore |-> current_score,
             difference |-> Some(RoundDiv(baseline.num - baseline.den * current_score, baseline.den)),
             threshold |-> DECLINE_THRESHOLD_POINTS,
             consecutiveWeeks |-> IF decline_detected THEN DECLINE_CONSECUTIVE_WEEKS ELSE 0]

\* a plausible slip: any() where the code has all()
detect_decline_any(collection, patient_id, current_score) ==
    LET baseline == get_baseline_score(collection, patient_id, BASELINE_WEEKS)
        recent_score_list ==
            scores_of(limit(order_by_weekStart_desc(where_patient(collection, patient_id)),
                            DECLINE_CONSECUTIVE_WEEKS))
        decline_detected ==
            IF ~drop_reaches_threshold(baseline, current_score) THEN FALSE
            ELSE IF Len(recent_score_list) >= DECLINE_CONSECUTIVE_WEEKS
                 THEN \E i \in 1..Len(recent_score_list) :
                          drop_reaches_threshold(baseline, recent_score_list[i])
                 ELSE TRUE
    IN  IF baseline.isNone THEN
            [declineDetected |-> FALSE, reason |-> "Insufficient baseline data",
             baseline |-> NoneValue, currentScore |-> current_score, difference |-> NoneValue]
        ELSE
            [declineDetected |-> decline_detected,
             baseline |-> baseline,
             currentScore |-> current_score,
             difference |-> Some(RoundDiv(baseline.num - baseline.den * current_score, baseline.den)),
             threshold |-> DECLINE_THRESHOLD_POINTS,
             consecutiveWeeks |-> IF decline_detected THEN DECLINE_CONSECUTIVE_WEEKS ELSE 0]

detect_decline(collection, patient_id, current_score) ==
    LET baseline == get_baseline_score(collection, patient_id, BASELINE_WEEKS)
        recent_score_list ==
            scores_of(limit(order_by_weekStart_desc(where_patient(collection, patient_id)),
                            DECLINE_CONSECUTIVE_WEEKS))
        decline_detected ==
            IF ~drop_reaches_threshold(baseline, current_score) THEN FALSE
            ELSE IF Len(recent_score_list) >= DECLINE_CONSECUTIVE_WEEKS
                 THEN \A i \in 1..Len(recent_score_list) :
                          drop_reaches_threshold(baseline, recent_score_list[i])
                 ELSE TRUE
    IN  IF baseline.isNone THEN
            [declineDetected |-> FALSE, reason |-> "Insufficient baseline data",
             baseline |-> NoneValue, currentScore |-> current_score, difference |-> NoneValue]
        ELSE
            [declineDetected |-> decline_detected,
             baseline |-> baseline,
             currentScore |-> current_score,
             difference |-> Some(RoundDiv(baseline.num - baseline.den * current_score, baseline.den)),
             threshold |-> DECLINE_THRESHOLD_POINTS,
             consecutiveWeeks |-> IF decline_detected THEN DECLINE_CONSECUTIVE_WEEKS ELSE 0]

\* a plausible alternative: one document per patient and week, written over
save_weekly_score_upsert(collection, patient_id, score_data) ==
    LET doc == [patientId |-> score_data.patientId,
                weekStart |-> score_data.weekStart,
                weekEnd |-> score_data.weekEnd,
                score |-> score_data.score,
                patientState |-> get_patient_state(score_data.score)]
        same == { i \in 1..Len(collection) :
                    /\ collection[i].patientId = doc.patientId
                    /\ collection[i].weekStart \div Days(DAYS_IN_WEEK)
                          = doc.weekStart \div Days(DAYS_IN_WEEK) }
    IN  IF same = {} THEN Append(collection, doc)
        ELSE [i \in 1..Len(collection) |-> IF i \in same THEN doc ELSE collection[i]]

\* The stored document keeps the fields later queries read.
save_weekly_score(collection, patient_id, score_data) ==
    Append(collection,
           [patientId |-> score_data.patientId,
            weekStart |-> score_data.weekStart,
            weekEnd |-> score_data.weekEnd,
            score |-> score_data.score,
            patientState |-> get_patient_state(score_data.score)])

\* The score the trend compares with: the patient's documents whose weekStart
\* is within 14 days of t, the clock when the query is issued, newest first,
\* at most two; the first of them that is not of the current weekStart.
get_previous_score(collection, patient_id, score_data, t) ==
    LET previous_week_start == t - Days(14)
        previous_scores ==
            limit(order_by_weekStart_desc(
                      SelectSeq(where_patient(collection, patient_id),
                                LAMBDA doc : doc.weekStart >= previous_week_start)), 2)
        candidates == SelectSeq(previous_scores,
                                LAMBDA doc : doc.weekStart # score_data.weekStart)
    IN  IF candidates = <<>> THEN NoneValue ELSE Some(candidates[1].score)

trend_of(previous_score, current_score) ==
    IF previous_score.isNone THEN "no_data"
    ELSE IF current_score > previous_score.value + 500 THEN "improving"
    ELSE IF current_score < previous_score.value - 500 THEN "declining"
    ELSE "stable"

\* the report, scoreId being the position of the new document in the collection
\* and t the clock when the trend query is issued
generate_weekly_report(collection, patient_id, score_data, t) ==
    LET previous_score == get_previous_score(collection, patient_id, score_data, t)
    IN  [kind |-> "weekly_report",
         patientId |-> patient_id,
         weekStart |-> score_data.weekStart,
         weekEnd |-> score_data.weekEnd,
         weeklyScore |-> score_data.score,
         patientState |-> get_patient_state(score_data.score),
         trend |-> trend_of(previous_score, score_data.score),
         previousScore |-> previous_score,
         breakdown |-> score_data.breakdown,
         declineDetection |-> detect_decline(collection, patient_id, score_data.score),
         scoreId |-> Len(collection) + 1]

\* What the window queries return in a week of the patient: a week in which
\* the medication is taken and a game is played every day, and a week in which
\* the medication is missed and no game is played.
WeekInputs ==
    { [reminders |-> << [type |-> "medication", isCompleted |-> TRUE, isMissed |-> FALSE] >>,
       brain_sessions |-> 7],
      [reminders |-> << [type |-> "medication", isCompleted |-> FALSE, isMissed |-> TRUE] >>,
       brain_sessions |-> 0] }

WeekOf(t) == t \div Days(DAYS_IN_WEEK)

Init ==
    /\ now = 0
    /\ progress_scores = <<>>
    /\ request = NoRequest
    /\ response = NoResponse
    /\ calls = NoCalls
    /\ notifications = <<>>

\* GET /progress/weekly-report/{patient_id}; the call takes one tick of the
\* clock, and the trend query reads the clock within that tick or at its end
GenerateWeeklyReport(patient_id) ==
    /\ Len(progress_scores) < MaxScores
    /\ now % TicksPerDay < TicksPerDay - 1
    /\ \E week \in WeekInputs, clock_gap \in ClockGaps, trend_gap \in ClockGaps :
          LET score_data == calculate_weekly_score(patient_id, NoneValue, week.reminders,
                                                   week.brain_sessions, clock_gap, now)
          IN  IF score_data.kind = "error"
              THEN /\ response' = [kind |-> "error", error |-> "HTTP 500"]
                   /\ UNCHANGED progress_scores
              ELSE /\ response' = generate_weekly_report(progress_scores, patient_id, score_data,
                                                              now + trend_gap)
                   /\ progress_scores' = save_weekly_score(progress_scores, patient_id, score_data)
    /\ now' = now + 1
    /\ UNCHANGED <<request, calls, notifications>>

\* a week passes: the next call comes at the start of the day one week on
AdvanceWeek ==
    /\ WeekOf(now) + 1 < MaxWeeks
    /\ now' = ((now \div TicksPerDay) + DAYS_IN_WEEK) * TicksPerDay
    /\ UNCHANGED <<progress_scores, request, response, calls, notifications>>

Next ==
    \/ \E patient_id \in Patients : GenerateWeeklyReport(patient_id)
    \/ AdvanceWeek

Spec == Init /\ [][Next]_vars

----------------------------------------------------------------------------
(* Report calls served concurrently: each worker thread runs the handler,  *)
(* its queries first and its write to progress_scores as a later step.     *)

InitConcurrent ==
    /\ now = 0
    /\ progress_scores = <<>>
    /\ request = NoRequest
    /\ response = NoResponse
    /\ calls = NoCalls
    /\ notifications = <<>>

InFlight == { w \in Workers : calls[w].pc = "computed" }

\* calculate_weekly_score, detect_decline and the trend query of one call
BeginWeeklyReport(w, patient_id) ==
    /\ calls[w].pc = "idle"
    /\ Len(progress_scores) + Cardinality(InFlight) < MaxCalls
    /\ \E week \in WeekInputs, clock_gap \in ClockGaps :
          LET score_data == calculate_weekly_score(patient_id, NoneValue, week.reminders,
                                                   week.brain_sessions, clock_gap, now)
          IN  IF score_data.kind = "error"
              THEN /\ response' = [kind |-> "error", error |-> "HTTP 500"]
                   /\ UNCHANGED calls
              ELSE /\ calls' = [calls EXCEPT ![w] =
                                  [pc |-> "computed",
                                   patient_id |-> patient_id,
                                   score_data |-> score_data,
                                   report |-> generate_weekly_report(progress_scores, patient_id,
                                                                     score_data, now)]]
                   /\ UNCHANGED response
    /\ UNCHANGED <<now, progress_scores, request, notifications>>

\* save_weekly_score of the call and its return
SaveWeeklyScore(w) ==
    /\ calls[w].pc = "computed"
    /\ progress_scores' = save_weekly_score(progress_scores, calls[w].patient_id,
                                            calls[w].score_data)
    /\ response' = [calls[w].report EXCEPT !.scoreId = Len(progress_scores) + 1]
    /\ calls' = [calls EXCEPT ![w] = [pc |-> "idle"]]
    /\ UNCHANGED <<now, request, notifications>>

\* the clock moves on while calls are served, within one day
ClockTick ==
    /\ now < TicksPerDay - 1
    /\ now' = now + 1
    /\ UNCHANGED <<progress_scores, request, response, calls, notifications>>

NextConcurrent ==
    \/ \E w \in Workers, patient_id \in Patients : BeginWeeklyReport(w, patient_id)
    \/ \E w \in Workers : SaveWeeklyScore(w)
    \/ ClockTick

SpecConcurrent == InitConcurrent /\ [][NextConcurrent]_vars

----------------------------------------------------------------------------
(* Properties of risk fusion, checked under SpecRisk *)

TierIndex(level) ==
    CASE level = "low" -> 0 [] level = "medium" -> 1 [] level = "high" -> 2 [] level = "critical" -> 3

TierAt(i) == CASE i = 0 -> "low" [] i = 1 -> "medium" [] i = 2 -> "high" [] OTHER -> "critical"

OneTierUp(level) == TierAt(IF TierIndex(level) < 3 THEN TierIndex(level) + 1 ELSE 3)

\* the base risk the specification gives each patient state
StatedBaseRisk(patient_state) ==
    IF patient_state = "stable" THEN "low"
    ELSE IF patient_state = "moderate_decline" THEN "high"
    ELSE IF patient_state = "high_risk" THEN "critical"
    ELSE "medium"

\* the risk the specification gives the decline/persistence stage
StatedStageRisk(patient_state, decline, persistent) ==
    LET base == StatedBaseRisk(patient_state)
    IN  IF decline /\ persistent THEN OneTierUp(base)
        ELSE IF persistent /\ base = "low" THEN "medium"
        ELSE base

RiskAssessed == request.op = "assess_combined_risk" /\ response.kind = "risk_assessment"

ReqState == request.progress_report.patientState

ReqDecline == request.progress_report.declineDetection.declineDetected

ReqPersistent == request.persistent_negative.persistentNegativeDetected

ReqTrend == request.emotion_summary.trend

\* C1: when decline and persistent-negative are both detected, the
\* decline/persistence stage gives the risk one tier above the base risk of
\* the patient state (critical stays critical) and riskRaised is true; with a
\* trend that is not worsening that risk is the combinedRiskLevel.
C1_BothDetectedEscalatesOneTier ==
    (RiskAssessed /\ ReqDecline /\ ReqPersistent) =>
        /\ response.riskRaised
        /\ response.baseRiskLevel = StatedBaseRisk(ReqState)
        /\ decline_persistence_stage(response.baseRiskLevel, TRUE, TRUE).combined_risk
               = OneTierUp(StatedBaseRisk(ReqState))
        /\ (ReqTrend # "worsening" =>
               response.combinedRiskLevel = OneTierUp(StatedBaseRisk(ReqState)))

C1_Witness ==
    /\ RiskAssessed /\ ReqDecline /\ ReqPersistent
    /\ ReqState = "mild_decline" /\ ReqTrend = "stable"
    /\ response.combinedRiskLevel = "high" /\ response.riskRaised

\* C2: when decline and persistent-negative are not both detected, the risk
\* before the trend adjustment is the base risk of the patient state
\* (unrecognized states giving medium) with riskRaised false, except for
\* persistent-negative alone at base low, which gives medium with riskRaised true.
C2_NotBothKeepsBaseRisk ==
    (RiskAssessed /\ ~(ReqDecline /\ ReqPersistent)) =>
        LET base == StatedBaseRisk(ReqState)
            exception == ReqPersistent /\ base = "low"
            stage == decline_persistence_stage(response.baseRiskLevel, ReqDecline, ReqPersistent)
        IN  /\ response.baseRiskLevel = base
            /\ response.riskRaised = exception
            /\ stage.risk_raised = exception
            /\ stage.combined_risk = (IF exception THEN "medium" ELSE base)
            /\ (ReqTrend # "worsening" =>
                   response.combinedRiskLevel = (IF exception THEN "medium" ELSE base))

C2_Witness ==
    /\ RiskAssessed /\ ReqPersistent /\ ~ReqDecline
    /\ ReqState = "stable" /\ ReqTrend = "improving"
    /\ response.combinedRiskLevel = "medium" /\ response.riskRaised

\* C3: a worsening trend escalates a stage risk of low or medium by exactly
\* one tier; a stage risk of high or critical, or any other trend, leaves
\* combinedRiskLevel as the decline/persistence stage set it.
C3_WorseningTrendEscalatesLowMedium ==
    RiskAssessed =>
        LET stage == StatedStageRisk(ReqState, ReqDecline, ReqPersistent)
        IN  response.combinedRiskLevel =
                (IF ReqTrend = "worsening" /\ stage \in {"low", "medium"}
                 THEN OneTierUp(stage) ELSE stage)

C3_Witness ==
    /\ RiskAssessed /\ ReqTrend = "worsening"
    /\ ReqState = "mild_decline" /\ ~ReqDecline /\ ~ReqPersistent
    /\ response.combinedRiskLevel = "high"

----------------------------------------------------------------------------
(* Properties of the weekly score, checked under SpecScore *)

ScoreReturned ==
    /\ request.op \in {"calculate_weekly_score", "get_weekly_score"}
    /\ response.kind = "weekly_score"

\* the weight the specification gives a reminder, by its type in any letter case
StatedWeight(r) ==
    IF Lower(r.type) \in {"medication", "appointment"} THEN 3
    ELSE IF Lower(r.type) = "meal" THEN 2
    ELSE 0

RECURSIVE SumOver(_, _)
SumOver(S, f) ==
    IF S = {} THEN 0
    ELSE LET x == CHOOSE y \in S : TRUE IN f[x] + SumOver(S \ {x}, f)

StatedReminderPossible ==
    SumOver(DOMAIN request.reminders,
            [i \in DOMAIN request.reminders |-> StatedWeight(request.reminders[i])])

StatedReminderEarned ==
    SumOver(DOMAIN request.reminders,
            [i \in DOMAIN request.reminders |->
                IF request.reminders[i].isCompleted THEN StatedWeight(request.reminders[i]) ELSE 0])

\* C7: every medication, appointment or meal reminder adds its weight (3, 3,
\* 2) to totalPossible and, only if completed, to earned; other reminders add
\* nothing, so what is left of the two totals is what the same call gives
\* with no reminders at all; and the score is 100 x earned / totalPossible
\* to two decimals, or 0 when totalPossible is 0.
C7_ReminderWeightsAndScore ==
    ScoreReturned =>
        /\ \E clock_gap \in ClockGaps :
              LET bare == calculate_task_points(<<>>, request.brain_sessions, clock_gap)
              IN  /\ response.totalPossiblePoints
                         = StatedReminderPossible + bare.total_possible_points
                  /\ response.earnedPoints = StatedReminderEarned + bare.earned_points
        /\ response.earnedPoints - StatedReminderEarned = 2 * request.brain_sessions
        /\ IF response.totalPossiblePoints = 0 THEN response.score = 0
           ELSE LET err == response.score * response.totalPossiblePoints
                               - 10000 * response.earnedPoints
                IN  /\ 2 * err <= response.totalPossiblePoints
                    /\ -2 * err <= response.totalPossiblePoints

C7_Witness ==
    /\ ScoreReturned
    /\ \E i, j \in DOMAIN request.reminders :
          /\ request.reminders[i].type = "medication" /\ request.reminders[i].isCompleted
          /\ request.reminders[j].type = "meal" /\ request.reminders[j].isMissed
    /\ response.earnedPoints = 3 + 2 * request.brain_sessions
    /\ response.totalPossiblePoints - StatedReminderPossible \in {14, 16}

\* C8: brain-training contributes daysInWindow x 2 possible points, 14 for
\* the default 7-day window on every call and scaled with the window for
\* another weekStart, and sessionCount x 2 earned points; one completed
\* medication with no session over 7 days scores 17.65; and the breakdown's
\* brain_training points_possible is the amount added to totalPossible.
C8_BrainTrainingPossibleIsWindowDays ==
    ScoreReturned =>
        LET daysInWindow == (response.weekEnd - response.weekStart) \div TicksPerDay
            brainPossible == response.totalPossiblePoints - StatedReminderPossible
        IN  /\ brainPossible = daysInWindow * 2
            /\ (request.op = "get_weekly_score" => brainPossible = 14)
            /\ response.earnedPoints - StatedReminderEarned = request.brain_sessions * 2
            /\ response.breakdown.brain_training.points_possible = brainPossible
            /\ (/\ request.op = "get_weekly_score"
                /\ request.brain_sessions = 0
                /\ request.reminders
                       = << [type |-> "medication", isCompleted |-> TRUE, isMissed |-> FALSE] >>
                => response.score = 1765)

\* C9: the score of every WeeklyScore computed lies in the range 0 to 100.
C9_ScoreWithinZeroAndHundred ==
    ScoreReturned => (response.score >= 0 /\ response.score <= 10000)

----------------------------------------------------------------------------
(* Properties of the patient state, checked under SpecState *)

StateRank(state) ==
    CASE state = "high_risk" -> 0 [] state = "moderate_decline" -> 1
      [] state = "mild_decline" -> 2 [] state = "stable" -> 3

\* C10: the patient state is stable for score >= 80, mild_decline for
\* 60 <= score < 80, moderate_decline for 40 <= score < 60 and high_risk for
\* score < 40; every score, whole or not, has exactly one of the four states,
\* and a higher score never has a worse state.
C10_PatientStateBands ==
    (request.op = "get_patient_state" /\ response.kind = "patient_state") =>
        LET score == request.score
        IN  /\ response.state \in PatientStates
            /\ (response.state = "stable") = (score >= 8000)
            /\ (response.state = "mild_decline") = (6000 <= score /\ score < 8000)
            /\ (response.state = "moderate_decline") = (4000 <= score /\ score < 6000)
            /\ (response.state = "high_risk") = (score < 4000)
            /\ (score > 0 =>
                   StateRank(get_patient_state(score - 1)) <= StateRank(response.state))

C10_Witness ==
    /\ request.op = "get_patient_state"
    /\ request.score = 7950
    /\ response.kind = "patient_state"
    /\ response.state = "mild_decline"

----------------------------------------------------------------------------
(* Properties of baseline and decline detection, checked under Spec *)

ReportReturned == response.kind = "weekly_report"

\* the collection as the reported call found it, before its own append
StoredBefore == SubSeq(progress_scores, 1, response.scoreId - 1)

\* positions of the reported patient's documents
OwnDocs(docs) == { i \in 1..Len(docs) : docs[i].patientId = response.patientId }

\* the k earliest, and the k most recent, of the patient's documents by weekStart
Earliest(docs, k) ==
    { i \in OwnDocs(docs) :
        Cardinality({ j \in OwnDocs(docs) : docs[j].weekStart < docs[i].weekStart }) < k }

MostRecent(docs, k) ==
    { i \in OwnDocs(docs) :
        Cardinality({ j \in OwnDocs(docs) : docs[j].weekStart > docs[i].weekStart }) < k }

\* baseline - score >= 15, the baseline being the fraction num / den
FifteenBelow(baseline, score) == baseline.num >= baseline.den * (score + 1500)

\* C4: declineDetected is true if and only if a baseline exists,
\* baseline - currentScore >= 15, and each of the 2 most recent stored scores
\* of the patient satisfies baseline - score >= 15; one of the two missing the
\* gap, or no baseline, gives false.
C4_DeclineIffConfirmedByTwoRecent ==
    ReportReturned =>
        LET d == response.declineDetection
            docs == StoredBefore
        IN  /\ d.currentScore = response.weeklyScore
            /\ d.declineDetected
                   = (/\ ~d.baseline.isNone
                      /\ FifteenBelow(d.baseline, d.currentScore)
                      /\ Cardinality(MostRecent(docs, 2)) = 2
                      /\ \A i \in MostRecent(docs, 2) : FifteenBelow(d.baseline, docs[i].score))

C4_Witness ==
    /\ ReportReturned
    /\ ~response.declineDetection.baseline.isNone
    /\ FifteenBelow(response.declineDetection.baseline, response.declineDetection.currentScore)
    /\ \E i, j \in MostRecent(StoredBefore, 2) :
          /\ FifteenBelow(response.declineDetection.baseline, StoredBefore[i].score)
          /\ ~FifteenBelow(response.declineDetection.baseline, StoredBefore[j].score)
    /\ ~response.declineDetection.declineDetected

\* C5: a report carries declineDetected = true only if scores of the patient
\* belonging to at least two distinct weeks lie 15 or more points below the
\* baseline, however many reports are generated within one week.
C5_DeclineNeedsTwoDistinctWeeks ==
    (ReportReturned /\ response.declineDetection.declineDetected) =>
        LET docs == SubSeq(progress_scores, 1, response.scoreId)
            low == { i \in OwnDocs(docs) :
                       FifteenBelow(response.declineDetection.baseline, docs[i].score) }
        IN  Cardinality({ WeekOf(docs[i].weekStart) : i \in low }) >= 2

\* C6: the baseline is the mean of the earliest min(n, 4) stored scores of
\* the patient by weekStart when the patient has n >= 2 stored scores, and
\* null when fewer than 2 are stored; other patients' scores stay out of it.
C6_BaselineIsMeanOfEarliestFour ==
    ReportReturned =>
        LET docs == StoredBefore
            n == Cardinality(OwnDocs(docs))
            first == Earliest(docs, 4)
            baseline == response.declineDetection.baseline
        IN  IF n < 2 THEN baseline = NoneValue
            ELSE /\ ~baseline.isNone
                 /\ Cardinality(first) = (IF n < 4 THEN n ELSE 4)
                 /\ baseline.num * Cardinality(first)
                        = baseline.den * SumOver(first, [i \in first |-> docs[i].score])

C6_Witness ==
    /\ ReportReturned
    /\ Cardinality(OwnDocs(StoredBefore)) >= 5
    /\ \E i \in OwnDocs(StoredBefore) \ Earliest(StoredBefore, 4) :
          response.declineDetection.baseline.num
              # response.declineDetection.baseline.den * StoredBefore[i].score
    /\ ~response.declineDetection.baseline.isNone

----------------------------------------------------------------------------
(* Properties of the report's trend, checked under Spec *)

\* the patient's document stored last before the reported call
LastStored(docs) ==
    docs[CHOOSE i \in OwnDocs(docs) : \A j \in OwnDocs(docs) : j <= i]

StatedTrend(current, previous) ==
    IF current > previous + 500 THEN "improving"
    ELSE IF current < previous - 500 THEN "declining"
    ELSE "stable"

\* C12: the trend of a report compares the current score with the patient's
\* most recently stored earlier score (more than 5 points above is improving,
\* more than 5 below is declining, otherwise stable), and is no_data exactly
\* when the patient had no stored score before the call.
C12_TrendAgainstMostRecentStored ==
    ReportReturned =>
        IF OwnDocs(StoredBefore) = {}
        THEN response.trend = "no_data"
        ELSE response.trend = StatedTrend(response.weeklyScore, LastStored(StoredBefore).score)

----------------------------------------------------------------------------
(* Properties of the score store, checked under SpecConcurrent *)

\* worker w returns its report in this step
Returns(w) == calls[w].pc = "computed" /\ calls'[w].pc = "idle"

\* C11: every step keeps the stored documents as they are, in place, and adds
\* exactly one document for each report call that returns in it, the document
\* of that call's patient and week, whatever is stored already.
C11_EachCallAppendsOneRecord ==
    [][ /\ Len(progress_scores') = Len(progress_scores)
                                     + Cardinality({ w \in Workers : Returns(w) })
        /\ SubSeq(progress_scores', 1, Len(progress_scores)) = progress_scores
        /\ \A w \in Workers :
              Returns(w) =>
                  /\ progress_scores'[Len(progress_scores')].patientId = calls[w].patient_id
                  /\ progress_scores'[Len(progress_scores')].weekStart
                        = calls[w].score_data.weekStart ]_vars

\* two calls for one patient in one week, the second having run its queries
\* before the first stored its score, have left two documents
C11_Witness ==
    /\ Len(progress_scores) = 2
    /\ progress_scores[1].patientId = progress_scores[2].patientId
    /\ WeekOf(progress_scores[1].weekStart + Days(DAYS_IN_WEEK))
          = WeekOf(progress_scores[2].weekStart + Days(DAYS_IN_WEEK))
    /\ progress_scores[1].weekStart < progress_scores[2].weekStart
    /\ ReportReturned
    /\ response.scoreId = 2
    /\ response.previousScore.isNone

----------------------------------------------------------------------------
(* advanced_emotion_analysis.py: the detectors over the stored analyses.   *)
(* Intensities are whole numbers; averages and their comparisons are exact *)
(* fractions, where the code computes in doubles.                          *)

NEGATIVE_EMOTIONS ==
    {"sad", "angry", "anxious", "fearful", "confused", "frustrated", "lonely",
     "depressed/low mood"}

PERSISTENT_DAYS_THRESHOLD == 3

HIGH_INTENSITY_THRESHOLD == 70

\* 0.4
VOLATILITY_THRESHOLD == [num |-> 2, den |-> 5]

\* what one analysis says: a primary emotion and, or not, a secondary one
Kind(primary, primary_intensity, secondary, secondary_intensity) ==
    [primaryEmotion |-> primary,
     primaryIntensity |-> primary_intensity,
     secondaryEmotion |-> secondary,
     secondaryIntensity |-> secondary_intensity]

\* the stored analysis, as get_emotion_entries hands it to a detector; an
\* absent secondary intensity reads as 0
Entry(timestamp, kind) ==
    [timestamp |-> timestamp,
     primaryEmotion |-> kind.primaryEmotion,
     primaryIntensity |-> kind.primaryIntensity,
     secondaryEmotion |-> kind.secondaryEmotion,
     secondaryIntensity |-> kind.secondaryIntensity]

Dates == 0..(MaxDates - 1)

\* the timestamps of n analyses, newest first
Timestamps(n, dates) ==
    { ts \in [1..n -> dates] : \A i \in 1..(n - 1) : ts[i] >= ts[i + 1] }

\* the patient's analyses as the store returns them, newest first
Entries(ts, ks) == [i \in 1..Len(ts) |-> Entry(Days(ts[i]), ks[i])]

\* entry_date.date()
date_of(timestamp) == timestamp \div TicksPerDay

\* get_emotion_entries: the patient's analyses within [start_date, end_date],
\* newest first, at most limit_n of them; NoneValue leaves a bound out
get_emotion_entries(collection, start_date, end_date, limit_n) ==
    LET after == IF start_date.isNone THEN collection
                 ELSE SelectSeq(collection, LAMBDA e : e.timestamp >= start_date.value)
        within == IF end_date.isNone THEN after
                  ELSE SelectSeq(after, LAMBDA e : e.timestamp <= end_date.value)
    IN  IF limit_n.isNone THEN within ELSE limit(within, limit_n.value)

\* the entry flags its date: a negative primary or secondary emotion of
\* intensity 70 or more
high_negative(entry) ==
    \/ /\ entry.primaryEmotion \in NEGATIVE_EMOTIONS
       /\ entry.primaryIntensity >= HIGH_INTENSITY_THRESHOLD
    \/ /\ ~entry.secondaryEmotion.isNone
       /\ entry.secondaryEmotion.value \in NEGATIVE_EMOTIONS
       /\ entry.secondaryIntensity >= HIGH_INTENSITY_THRESHOLD

\* a plausible slip: entries counted where dates are
check_persistent_negative_emotions_per_entry(collection, days, t) ==
    LET entries == get_emotion_entries(collection, Some(t - Days(days)), Some(t), NoneValue)
        flagged == { i \in 1..Len(entries) : high_negative(entries[i]) }
    IN  IF Len(entries) < days
        THEN [kind |-> "persistent_negative",
              persistentNegativeDetected |-> FALSE,
              reason |-> "Insufficient entries",
              entries |-> Len(entries),
              required |-> days]
        ELSE [kind |-> "persistent_negative",
              persistentNegativeDetected |-> Cardinality(flagged) >= days,
              daysWithHighNegativeEmotions |-> Cardinality(flagged),
              requiredDays |-> days,
              emotions |-> { date_of(entries[i].timestamp) : i \in flagged },
              threshold |-> HIGH_INTENSITY_THRESHOLD]

check_persistent_negative_emotions(collection, days, t) ==
    LET entries == get_emotion_entries(collection, Some(t - Days(days)), Some(t), NoneValue)
        negative_days == { date_of(entries[i].timestamp) :
                             i \in { j \in 1..Len(entries) : high_negative(entries[j]) } }
    IN  IF Len(entries) < days
        THEN [kind |-> "persistent_negative",
              persistentNegativeDetected |-> FALSE,
              reason |-> "Insufficient entries",
              entries |-> Len(entries),
              required |-> days]
        ELSE [kind |-> "persistent_negative",
              persistentNegativeDetected |-> Cardinality(negative_days) >= days,
              daysWithHighNegativeEmotions |-> Cardinality(negative_days),
              requiredDays |-> days,
              emotions |-> negative_days,
              threshold |-> HIGH_INTENSITY_THRESHOLD]

\* analyses around the intensity threshold, with and without a secondary emotion
PersistenceKinds ==
    { Kind("sad", 70, NoneValue, 0),
      Kind("sad", 69, NoneValue, 0),
      Kind("happy", 80, NoneValue, 0),
      Kind("happy", 30, Some("anxious"), 70) }

InitPersistence ==
    /\ now = Days(MaxDates - 1)
    /\ progress_scores = <<>>
    /\ \E n \in 0..MaxEntries :
          \E ts \in Timestamps(n, Dates), ks \in [1..n -> PersistenceKinds],
             days \in (PERSISTENT_DAYS_THRESHOLD - 1)..PERSISTENT_DAYS_THRESHOLD :
              request = [op |-> "check_persistent_negative_emotions",
                         collection |-> Entries(ts, ks),
                         days |-> days]
    /\ response = NoResponse
    /\ calls = NoCalls
    /\ notifications = <<>>

\* GET /emotion/persistent-negative/{patient_id}
CheckPersistentNegative ==
    /\ response = NoResponse
    /\ response' = check_persistent_negative_emotions(request.collection, request.days, now)
    /\ UNCHANGED <<now, progress_scores, request, calls, notifications>>

NextPersistence == CheckPersistentNegative

SpecPersistence == InitPersistence /\ [][NextPersistence]_vars

----------------------------------------------------------------------------
(* Properties of persistence detection, checked under SpecPersistence *)

\* the entries of the request that lie in the window of the call
InWindow ==
    { i \in 1..Len(request.collection) :
        /\ request.collection[i].timestamp >= now - Days(request.days)
        /\ request.collection[i].timestamp <= now }

StatedNegative(emotion) ==
    emotion \in {"sad", "angry", "anxious", "fearful", "confused", "frustrated", "lonely",
                 "depressed/low mood"}

\* the calendar dates with an entry whose primary or secondary emotion is
\* negative at intensity 70 or more
StatedFlaggedDates ==
    { request.collection[i].timestamp \div TicksPerDay :
        i \in { j \in InWindow :
                  LET e == request.collection[j]
                  IN  \/ StatedNegative(e.primaryEmotion) /\ e.primaryIntensity >= 70
                      \/ /\ ~e.secondaryEmotion.isNone
                         /\ StatedNegative(e.secondaryEmotion.value)
                         /\ e.secondaryIntensity >= 70 } }

\* C14: with at least `days` entries in the window, persistence is detected
\* exactly when the dates having a high-intensity (70 or more) negative primary
\* or secondary emotion number at least `days`, and
\* daysWithHighNegativeEmotions is the number of those dates.
C14_PersistenceCountsFlaggedDates ==
    (response.kind = "persistent_negative" /\ Cardinality(InWindow) >= request.days) =>
        /\ response.persistentNegativeDetected
              = (Cardinality(StatedFlaggedDates) >= request.days)
        /\ response.daysWithHighNegativeEmotions = Cardinality(StatedFlaggedDates)

\* three entries on three dates, each sad at 70 or more, days = 3
C14_Witness ==
    /\ response.kind = "persistent_negative"
    /\ request.days = 3
    /\ Len(request.collection) = 3
    /\ \A i \in 1..3 : request.collection[i].primaryEmotion = "sad"
                        /\ request.collection[i].primaryIntensity >= 70
    /\ Cardinality({ request.collection[i].timestamp : i \in 1..3 }) = 3
    /\ response.persistentNegativeDetected
    /\ response.daysWithHighNegativeEmotions = 3

----------------------------------------------------------------------------
(* advanced_emotion_analysis.py: shift detection *)

\* what a division by a zero length raises
ZeroDivisionError == [kind |-> "error", error |-> "ZeroDivisionError"]

\* the emotion's intensities in the entries: the primary one where the emotion
\* is primary, else the secondary one where it is secondary
RECURSIVE emotion_intensities(_, _)
emotion_intensities(entries, emotion) ==
    IF entries = <<>> THEN <<>>
    ELSE LET entry == Head(entries)
             rest == emotion_intensities(Tail(entries), emotion)
         IN  IF entry.primaryEmotion = emotion THEN <<entry.primaryIntensity>> \o rest
             ELSE IF ~entry.secondaryEmotion.isNone /\ entry.secondaryEmotion.value = emotion
                  THEN <<entry.secondaryIntensity>> \o rest
                  ELSE rest

\* the two averages and their comparison; averages and increase in hundredths
shift_of(early_intensities, late_intensities, emotion, days, intensity_increase) ==
    IF Len(early_intensities) = 0 \/ Len(late_intensities) = 0
    THEN ZeroDivisionError
    ELSE LET early_sum == SumSeq(early_intensities)
             late_sum == SumSeq(late_intensities)
             early_len == Len(early_intensities)
             late_len == Len(late_intensities)
             increase_num == late_sum * early_len - early_sum * late_len
             increase_den == late_len * early_len
         IN  [kind |-> "emotion_shift",
              shiftDetected |-> increase_num >= intensity_increase * increase_den,
              emotion |-> emotion,
              earlyAverage |-> RoundDiv(100 * early_sum, early_len),
              lateAverage |-> RoundDiv(100 * late_sum, late_len),
              increase |-> RoundDiv(100 * increase_num, increase_den),
              threshold |-> intensity_increase,
              periodDays |-> days]

\* a plausible slip: the halves taken as if the list were oldest first
detect_emotion_shift_oldest_first(collection, emotion, days, intensity_increase, t) ==
    LET entries == get_emotion_entries(collection, Some(t - Days(days)), Some(t), NoneValue)
    IN  IF Len(entries) < 2
        THEN [kind |-> "emotion_shift", shiftDetected |-> FALSE,
              reason |-> "Insufficient data", emotion |-> emotion, entries |-> Len(entries)]
        ELSE LET mid_point == Len(entries) \div 2
                 early_entries == SubSeq(entries, 1, mid_point)
                 late_entries == SubSeq(entries, mid_point + 1, Len(entries))
                 early_intensities == emotion_intensities(early_entries, emotion)
                 late_intensities == emotion_intensities(late_entries, emotion)
             IN  IF early_intensities = <<>> \/ late_intensities = <<>>
                 THEN [kind |-> "emotion_shift", shiftDetected |-> FALSE,
                       reason |-> "Emotion not found in both periods", emotion |-> emotion]
                 ELSE shift_of(early_intensities, late_intensities, emotion, days,
                               intensity_increase)

\* a plausible slip: the averages taken without looking for empty halves
detect_emotion_shift_unguarded(collection, emotion, days, intensity_increase, t) ==
    LET entries == get_emotion_entries(collection, Some(t - Days(days)), Some(t), NoneValue)
    IN  IF Len(entries) < 2
        THEN [kind |-> "emotion_shift", shiftDetected |-> FALSE,
              reason |-> "Insufficient data", emotion |-> emotion, entries |-> Len(entries)]
        ELSE LET mid_point == Len(entries) \div 2
                 early_entries == SubSeq(entries, mid_point + 1, Len(entries))
                 late_entries == SubSeq(entries, 1, mid_point)
             IN  shift_of(emotion_intensities(early_entries, emotion),
                          emotion_intensities(late_entries, emotion), emotion, days,
                          intensity_increase)

detect_emotion_shift(collection, emotion, days, intensity_increase, t) ==
    LET entries == get_emotion_entries(collection, Some(t - Days(days)), Some(t), NoneValue)
    IN  IF Len(entries) < 2
        THEN [kind |-> "emotion_shift", shiftDetected |-> FALSE,
              reason |-> "Insufficient data", emotion |-> emotion, entries |-> Len(entries)]
        ELSE LET mid_point == Len(entries) \div 2
                 early_entries == SubSeq(entries, mid_point + 1, Len(entries))
                 late_entries == SubSeq(entries, 1, mid_point)
                 early_intensities == emotion_intensities(early_entries, emotion)
                 late_intensities == emotion_intensities(late_entries, emotion)
             IN  IF early_intensities = <<>> \/ late_intensities = <<>>
                 THEN [kind |-> "emotion_shift", shiftDetected |-> FALSE,
                       reason |-> "Emotion not found in both periods", emotion |-> emotion]
                 ELSE shift_of(early_intensities, late_intensities, emotion, days,
                               intensity_increase)

\* analyses with the emotion looked for as primary, as secondary, and without it
ShiftKinds ==
    { Kind("sad", 30, NoneValue, 0),
      Kind("sad", 55, NoneValue, 0),
      Kind("sad", 70, NoneValue, 0),
      Kind("happy", 30, Some("sad"), 55),
      Kind("happy", 70, NoneValue, 0) }

\* one analysis a day, the newest today
DailyTimestamps(n) == [i \in 1..n |-> (MaxDates - 1) - (i - 1)]

InitShift ==
    /\ now = Days(MaxDates - 1)
    /\ progress_scores = <<>>
    /\ \E n \in 0..MaxEntries :
          \E ks \in [1..n -> ShiftKinds], intensity_increase \in {20, 25} :
              request = [op |-> "detect_emotion_shift",
                         collection |-> Entries(DailyTimestamps(n), ks),
                         emotion |-> "sad",
                         days |-> DAYS_IN_WEEK,
                         intensity_increase |-> intensity_increase]
    /\ response = NoResponse
    /\ calls = NoCalls
    /\ notifications = <<>>

\* GET /emotion/shift-detection/{patient_id}
DetectEmotionShift ==
    /\ response = NoResponse
    /\ response' = detect_emotion_shift(request.collection, request.emotion, request.days,
                                        request.intensity_increase, now)
    /\ UNCHANGED <<now, progress_scores, request, calls, notifications>>

NextShift == DetectEmotionShift

SpecShift == InitShift /\ [][NextShift]_vars

----------------------------------------------------------------------------
(* Properties of shift detection, checked under SpecShift *)

\* the positions of the late (newer) and of the early (older) half
LateHalf == 1..(Len(request.collection) \div 2)

EarlyHalf == ((Len(request.collection) \div 2) + 1)..Len(request.collection)

\* the positions of a half where the emotion occurs, and its intensity there
Occurs(half) ==
    { i \in half :
        LET e == request.collection[i]
        IN  \/ e.primaryEmotion = request.emotion
            \/ ~e.secondaryEmotion.isNone /\ e.secondaryEmotion.value = request.emotion }

StatedIntensity ==
    [i \in 1..Len(request.collection) |->
        LET e == request.collection[i]
        IN  IF e.primaryEmotion = request.emotion THEN e.primaryIntensity
            ELSE e.secondaryIntensity]

\* C15: with two or more entries, newest first, the late half is the first
\* len div 2 entries and the early half the rest; when the emotion occurs in
\* both, shiftDetected says whether the late average of its intensities
\* (primary, else secondary) exceeds the early average by minIncrease or more,
\* and increase is the difference of the two averages.
C15_ShiftComparesHalves ==
    (/\ response.kind = "emotion_shift"
     /\ Len(request.collection) >= 2
     /\ Occurs(LateHalf) # {}
     /\ Occurs(EarlyHalf) # {}) =>
        LET late_sum == SumOver(Occurs(LateHalf), StatedIntensity)
            early_sum == SumOver(Occurs(EarlyHalf), StatedIntensity)
            late_n == Cardinality(Occurs(LateHalf))
            early_n == Cardinality(Occurs(EarlyHalf))
        IN  /\ response.shiftDetected
                  = (late_sum * early_n - early_sum * late_n
                        >= request.intensity_increase * late_n * early_n)
            /\ response.increase
                  = RoundDiv(100 * (late_sum * early_n - early_sum * late_n), late_n * early_n)

\* early average 30, late average 55, threshold 20: detected, increase 25.0
C15_Witness ==
    /\ response.kind = "emotion_shift"
    /\ request.intensity_increase = 20
    /\ Len(request.collection) = 2
    /\ request.collection[1].primaryEmotion = "sad"
    /\ request.collection[1].primaryIntensity = 55
    /\ request.collection[2].primaryEmotion = "sad"
    /\ request.collection[2].primaryIntensity = 30
    /\ response.shiftDetected
    /\ response.increase = 2500
    /\ response.earlyAverage = 3000
    /\ response.lateAverage = 5500

----------------------------------------------------------------------------
(* advanced_emotion_analysis.py: volatility detection.  A daily average is *)
(* the fraction sum / count of the day's scores; the averages are brought  *)
(* to the common denominator of all counts, so that mean, variance and the *)
(* square of the coefficient of variation are exact.                       *)

RECURSIVE ProdOver(_, _)
ProdOver(S, f) ==
    IF S = {} THEN 1
    ELSE LET x == CHOOSE y \in S : TRUE IN f[x] * ProdOver(S \ {x}, f)

\* a plausible slip: the intensity taken as the score whatever the emotion
composite_score_unsigned(entry) == entry.primaryIntensity

\* negative emotions = negative score
composite_score(entry) ==
    IF entry.primaryEmotion \in NEGATIVE_EMOTIONS
    THEN 0 - entry.primaryIntensity
    ELSE entry.primaryIntensity

\* daily_scores: the scores of each date that has an entry
daily_scores(entries) ==
    [date \in { date_of(entries[i].timestamp) : i \in 1..Len(entries) } |->
        LET of_date == SelectSeq(entries, LAMBDA e : date_of(e.timestamp) = date)
        IN  [i \in 1..Len(of_date) |-> composite_score(of_date[i])]]

\* the daily averages times their common denominator
scaled_daily_averages(scores) ==
    LET counts == [date \in DOMAIN scores |-> Len(scores[date])]
        common == ProdOver(DOMAIN scores, counts)
    IN  [date \in DOMAIN scores |-> SumSeq(scores[date]) * (common \div counts[date])]

\* mean, variance and coefficient of variation of the daily averages:
\* with n days, scaled averages x and their sum total, the mean is
\* total / (n * common), the variance (n * sum x^2 - total^2) / (n * common)^2
\* and the squared coefficient their quotient
volatility_of(scores, days) ==
    LET n == Cardinality(DOMAIN scores)
        counts == [date \in DOMAIN scores |-> Len(scores[date])]
        common == ProdOver(DOMAIN scores, counts)
        x == scaled_daily_averages(scores)
        total == SumOver(DOMAIN scores, x)
        squares == SumOver(DOMAIN scores, [date \in DOMAIN scores |-> x[date] * x[date]])
        spread == n * squares - total * total
    IN  IF n = 0 \/ total = 0
        THEN ZeroDivisionError
        ELSE [kind |-> "volatility",
              volatilityDetected |->
                  VOLATILITY_THRESHOLD.den * VOLATILITY_THRESHOLD.den * spread
                      >= VOLATILITY_THRESHOLD.num * VOLATILITY_THRESHOLD.num * total * total,
              coefficientOfVariation |-> [squared_num |-> spread, squared_den |-> total * total],
              threshold |-> VOLATILITY_THRESHOLD,
              meanScore |-> RoundDiv(100 * total, n * common),
              daysAnalyzed |-> n,
              periodDays |-> days]

\* a plausible alternative: a zero mean reported as no variation at all
detect_emotion_volatility_zero_cv(collection, days, t) ==
    LET entries == get_emotion_entries(collection, Some(t - Days(days)), Some(t), NoneValue)
        scores == daily_scores(entries)
    IN  IF Len(entries) < 3
        THEN [kind |-> "volatility", volatilityDetected |-> FALSE,
              reason |-> "Insufficient data", entries |-> Len(entries)]
        ELSE IF Cardinality(DOMAIN scores) < 3
        THEN [kind |-> "volatility", volatilityDetected |-> FALSE,
              reason |-> "Insufficient daily data", days |-> Cardinality(DOMAIN scores)]
        ELSE IF SumOver(DOMAIN scores, scaled_daily_averages(scores)) = 0
        THEN [kind |-> "volatility", volatilityDetected |-> FALSE,
              coefficientOfVariation |-> [squared_num |-> 0, squared_den |-> 1],
              threshold |-> VOLATILITY_THRESHOLD,
              meanScore |-> 0,
              daysAnalyzed |-> Cardinality(DOMAIN scores),
              periodDays |-> days]
        ELSE volatility_of(scores, days)

\* stdDeviation, a square root, is left out of the result
detect_emotion_volatility(collection, days, t) ==
    LET entries == get_emotion_entries(collection, Some(t - Days(days)), Some(t), NoneValue)
        scores == daily_scores(entries)
    IN  IF Len(entries) < 3
        THEN [kind |-> "volatility", volatilityDetected |-> FALSE,
              reason |-> "Insufficient data", entries |-> Len(entries)]
        ELSE IF Cardinality(DOMAIN scores) < 3
        THEN [kind |-> "volatility", volatilityDetected |-> FALSE,
              reason |-> "Insufficient daily data", days |-> Cardinality(DOMAIN scores)]
        ELSE IF SumOver(DOMAIN scores, scaled_daily_averages(scores)) = 0
        THEN [kind |-> "volatility", volatilityDetected |-> FALSE,
              reason |-> "Zero mean score", mean |-> 0]
        ELSE volatility_of(scores, days)

\* analyses of positive, negative and no intensity
VolatilityKinds ==
    { Kind("happy", 30, NoneValue, 0),
      Kind("happy", 70, NoneValue, 0),
      Kind("sad", 30, NoneValue, 0),
      Kind("neutral", 0, NoneValue, 0) }

InitVolatility ==
    /\ now = Days(MaxDates - 1)
    /\ progress_scores = <<>>
    /\ \E n \in 0..MaxEntries :
          \E ts \in Timestamps(n, Dates), ks \in [1..n -> VolatilityKinds] :
              request = [op |-> "detect_emotion_volatility",
                         collection |-> Entries(ts, ks),
                         days |-> DAYS_IN_WEEK]
    /\ response = NoResponse
    /\ calls = NoCalls
    /\ notifications = <<>>

\* GET /emotion/volatility/{patient_id}
DetectEmotionVolatility ==
    /\ response = NoResponse
    /\ response' = detect_emotion_volatility(request.collection, request.days, now)
    /\ UNCHANGED <<now, progress_scores, request, calls, notifications>>

NextVolatility == DetectEmotionVolatility

SpecVolatility == InitVolatility /\ [][NextVolatility]_vars

----------------------------------------------------------------------------
(* Properties of volatility detection, checked under SpecVolatility *)

\* the dates of the request's entries, and the entries of one date
RequestDates == { request.collection[i].timestamp \div TicksPerDay :
                    i \in 1..Len(request.collection) }

EntriesOn(date) == { i \in 1..Len(request.collection) :
                       request.collection[i].timestamp \div TicksPerDay = date }

\* -primaryIntensity for a negative primary emotion, else +primaryIntensity
StatedScore ==
    [i \in 1..Len(request.collection) |->
        IF StatedNegative(request.collection[i].primaryEmotion)
        THEN 0 - request.collection[i].primaryIntensity
        ELSE request.collection[i].primaryIntensity]

\* the composite of a date is the sum of its scores over their number; times
\* the product of all dates' numbers it is whole
DayCount == [date \in RequestDates |-> Cardinality(EntriesOn(date))]

Composite ==
    LET counts == DayCount
        all == ProdOver(RequestDates, counts)
    IN  [date \in RequestDates |->
            SumOver(EntriesOn(date), StatedScore) * (all \div counts[date])]

CompositeTotal == SumOver(RequestDates, Composite)

\* sum over the dates of (composite - mean)^2, times the number of dates
CompositeSpread ==
    LET composite == Composite
        total == SumOver(RequestDates, composite)
        n == Cardinality(RequestDates)
    IN  SumOver(RequestDates,
                [date \in RequestDates |->
                    (n * composite[date] - total) * (n * composite[date] - total)])

\* C16: with entries on three or more dates whose daily composites have a
\* nonzero mean, volatility is detected exactly when the population variance
\* of the composites is at least 0.16 times the square of their mean, that is
\* when |standard deviation / mean| >= 0.4.
C16_VolatilityIffCoefficientAtLeastThreshold ==
    (/\ response.kind = "volatility"
     /\ Cardinality(RequestDates) >= 3
     /\ CompositeTotal # 0) =>
        response.volatilityDetected
            = (25 * CompositeSpread
                 >= 4 * Cardinality(RequestDates) * CompositeTotal * CompositeTotal)

\* composites 30, 30, 70, 70: mean 50, deviation 20, coefficient exactly 0.4
C16_Witness ==
    /\ response.kind = "volatility"
    /\ Cardinality(RequestDates) = 4
    /\ Len(request.collection) = 4
    /\ CompositeTotal = 200
    /\ CompositeSpread = 4 * 1600 * 4
    /\ response.volatilityDetected

\* the daily composites of the request are one and the same value
IdenticalComposites ==
    \A d1 \in RequestDates, d2 \in RequestDates : Composite[d1] = Composite[d2]

\* C17 as stated: identical daily composites on three or more dates, whatever
\* their common value, 0 included, give a result with coefficientOfVariation 0
\* and volatilityDetected false.
C17_IdenticalDaysGiveZeroCoefficient ==
    (/\ response.kind = "volatility"
     /\ Cardinality(RequestDates) >= 3
     /\ IdenticalComposites) =>
        /\ "coefficientOfVariation" \in DOMAIN response
        /\ response.coefficientOfVariation.squared_num = 0
        /\ ~response.volatilityDetected

\* C17 amended: identical daily composites on three or more dates give
\* volatilityDetected false; with a nonzero common value the result has
\* coefficientOfVariation 0, with the common value 0 it is the zero-mean result,
\* which has no coefficientOfVariation.
C17_IdenticalDaysNotVolatile ==
    (/\ response.kind = "volatility"
     /\ Cardinality(RequestDates) >= 3
     /\ IdenticalComposites) =>
        /\ ~response.volatilityDetected
        /\ IF CompositeTotal # 0
           THEN /\ "coefficientOfVariation" \in DOMAIN response
                /\ response.coefficientOfVariation.squared_num = 0
           ELSE /\ "coefficientOfVariation" \notin DOMAIN response
                /\ response.reason = "Zero mean score"

\* three dates of one nonzero composite, one of them with two entries
C17_Witness ==
    /\ response.kind = "volatility"
    /\ Cardinality(RequestDates) = 3
    /\ IdenticalComposites
    /\ CompositeTotal # 0
    /\ Len(request.collection) = 4
    /\ response.coefficientOfVariation.squared_num = 0

----------------------------------------------------------------------------
(* advanced_emotion_analysis.py: trend summary *)

\* get_emotion_trends: the number of analyses within the last `days` days
total_entries(collection, days, t) ==
    Len(get_emotion_entries(collection, Some(t - Days(days)), Some(t), NoneValue))

\* the primary intensities of the entries whose primary emotion is negative
RECURSIVE negative_intensities_of(_)
negative_intensities_of(entries) ==
    IF entries = <<>> THEN <<>>
    ELSE IF Head(entries).primaryEmotion \in NEGATIVE_EMOTIONS
         THEN <<Head(entries).primaryIntensity>> \o negative_intensities_of(Tail(entries))
         ELSE negative_intensities_of(Tail(entries))

\* a plausible slip: the comparisons taken as at least 10 apart
classify_trend_nonstrict(negative_intensities) ==
    IF Len(negative_intensities) = 0
    THEN ZeroDivisionError
    ELSE LET mid == Len(negative_intensities) \div 2
             early == SubSeq(negative_intensities, mid + 1, Len(negative_intensities))
             late == SubSeq(negative_intensities, 1, mid)
             early_avg == IF mid > 0 THEN [num |-> SumSeq(early), den |-> Len(early)]
                          ELSE [num |-> 0, den |-> 1]
             late_avg == IF mid > 0 THEN [num |-> SumSeq(late), den |-> Len(late)]
                         ELSE [num |-> 0, den |-> 1]
             cross_late == late_avg.num * early_avg.den
             cross_early == early_avg.num * late_avg.den
             ten == 10 * early_avg.den * late_avg.den
         IN  [kind |-> "emotion_trend",
              trend |-> IF early_avg.num = 0 THEN "improving"
                        ELSE IF cross_late >= cross_early + ten THEN "worsening"
                        ELSE IF cross_late <= cross_early - ten THEN "improving"
                        ELSE "stable",
              averageNegativeIntensity |->
                  RoundDiv(100 * SumSeq(negative_intensities), Len(negative_intensities)),
              earlyAverage |-> RoundDiv(100 * early_avg.num, early_avg.den),
              lateAverage |-> RoundDiv(100 * late_avg.num, late_avg.den)]

\* the two halves of the negative intensities, their averages as fractions
\* (0 for both when the late half is empty), and the trend they give
classify_trend(negative_intensities) ==
    IF Len(negative_intensities) = 0
    THEN ZeroDivisionError
    ELSE LET mid == Len(negative_intensities) \div 2
             early == SubSeq(negative_intensities, mid + 1, Len(negative_intensities))
             late == SubSeq(negative_intensities, 1, mid)
             early_avg == IF mid > 0 THEN [num |-> SumSeq(early), den |-> Len(early)]
                          ELSE [num |-> 0, den |-> 1]
             late_avg == IF mid > 0 THEN [num |-> SumSeq(late), den |-> Len(late)]
                         ELSE [num |-> 0, den |-> 1]
             cross_late == late_avg.num * early_avg.den
             cross_early == early_avg.num * late_avg.den
             ten == 10 * early_avg.den * late_avg.den
         IN  [kind |-> "emotion_trend",
              trend |-> IF early_avg.num = 0 THEN "improving"
                        ELSE IF cross_late > cross_early + ten THEN "worsening"
                        ELSE IF cross_late < cross_early - ten THEN "improving"
                        ELSE "stable",
              averageNegativeIntensity |->
                  RoundDiv(100 * SumSeq(negative_intensities), Len(negative_intensities)),
              earlyAverage |-> RoundDiv(100 * early_avg.num, early_avg.den),
              lateAverage |-> RoundDiv(100 * late_avg.num, late_avg.den)]

\* a plausible alternative: no least number of entries asked for
generate_emotion_trend_summary_any_number(collection, days, t) ==
    IF total_entries(collection, days, t) = 0
    THEN [kind |-> "emotion_trend", trend |-> "no_data",
          description |-> "No emotion data available"]
    ELSE LET entries == get_emotion_entries(collection, NoneValue, NoneValue, Some(days * 2))
             negative_intensities == negative_intensities_of(entries)
         IN  IF negative_intensities = <<>>
             THEN [kind |-> "emotion_trend", trend |-> "improving",
                   description |-> "No negative emotions detected",
                   averageNegativeIntensity |-> 0]
             ELSE classify_trend(negative_intensities)

generate_emotion_trend_summary(collection, days, t) ==
    IF total_entries(collection, days, t) = 0
    THEN [kind |-> "emotion_trend", trend |-> "no_data",
          description |-> "No emotion data available"]
    ELSE LET entries == get_emotion_entries(collection, NoneValue, NoneValue, Some(days * 2))
             negative_intensities == negative_intensities_of(entries)
         IN  IF Len(entries) < 2
             THEN [kind |-> "emotion_trend", trend |-> "stable",
                   description |-> "Insufficient data for trend analysis"]
             ELSE IF negative_intensities = <<>>
             THEN [kind |-> "emotion_trend", trend |-> "improving",
                   description |-> "No negative emotions detected",
                   averageNegativeIntensity |-> 0]
             ELSE classify_trend(negative_intensities)

\* negative analyses 10 apart, one of no intensity, and one that is not negative
TrendKinds ==
    { Kind("sad", 30, NoneValue, 0),
      Kind("sad", 40, NoneValue, 0),
      Kind("sad", 0, NoneValue, 0),
      Kind("happy", 70, NoneValue, 0) }

InitTrend ==
    /\ now = Days(MaxDates - 1)
    /\ progress_scores = <<>>
    /\ \E n \in 0..MaxEntries :
          \E ts \in Timestamps(n, Dates), ks \in [1..n -> TrendKinds], days \in 1..2 :
              request = [op |-> "generate_emotion_trend_summary",
                         collection |-> Entries(ts, ks),
                         days |-> days]
    /\ response = NoResponse
    /\ calls = NoCalls
    /\ notifications = <<>>

\* GET /emotion/trend-summary/{patient_id}
GenerateEmotionTrendSummary ==
    /\ response = NoResponse
    /\ response' = generate_emotion_trend_summary(request.collection, request.days, now)
    /\ UNCHANGED <<now, progress_scores, request, calls, notifications>>

NextTrend == GenerateEmotionTrendSummary

SpecTrend == InitTrend /\ [][NextTrend]_vars

----------------------------------------------------------------------------
(* Properties of the trend summary, checked under SpecTrend *)

\* the entries within the last `days` days
TrendWindow ==
    { i \in 1..Len(request.collection) :
        request.collection[i].timestamp >= now - Days(request.days) }

\* the up to 2 x days most recent entries
Fetched ==
    { i \in 1..Len(request.collection) : i <= 2 * request.days }

\* those of them with a negative primary emotion, their newer half (len div 2
\* of them) and their older half
NegativeFetched ==
    { i \in Fetched : StatedNegative(request.collection[i].primaryEmotion) }

LateNegative ==
    { i \in NegativeFetched :
        Cardinality({ j \in NegativeFetched : j < i }) < Cardinality(NegativeFetched) \div 2 }

EarlyNegative == NegativeFetched \ LateNegative

PrimaryIntensity ==
    [i \in 1..Len(request.collection) |-> request.collection[i].primaryIntensity]

\* the trend of a late average late_sum / late_n against an early one
StatedEmotionTrend(late_sum, late_n, early_sum, early_n) ==
    IF early_sum = 0 THEN "improving"
    ELSE IF late_sum * early_n > early_sum * late_n + 10 * early_n * late_n THEN "worsening"
    ELSE IF late_sum * early_n < early_sum * late_n - 10 * early_n * late_n THEN "improving"
    ELSE "stable"

\* the summary went as far as classifying the negative intensities
Classified == response.kind = "emotion_trend" /\ "earlyAverage" \in DOMAIN response

C19_NoDataAndNoNegative ==
    response.kind = "emotion_trend" =>
        /\ (response.trend = "no_data") = (TrendWindow = {})
        /\ (TrendWindow # {} /\ NegativeFetched = {}) => response.trend = "improving"

\* C19 amended: the trend is no_data exactly when the window holds no entry;
\* otherwise, with none of the fetched entries negative, it is improving when
\* two or more entries are fetched and stable when only one is.
C19_NoDataAndNoNegativeOfTwoOrMore ==
    response.kind = "emotion_trend" =>
        /\ (response.trend = "no_data") = (TrendWindow = {})
        /\ (TrendWindow # {} /\ NegativeFetched = {}) =>
              response.trend = (IF Cardinality(Fetched) >= 2 THEN "improving" ELSE "stable")

\* two entries, neither negative, the older one outside the window
C19_Witness ==
    /\ response.kind = "emotion_trend"
    /\ Cardinality(Fetched) = 2
    /\ Cardinality(TrendWindow) = 1
    /\ NegativeFetched = {}
    /\ response.trend = "improving"

----------------------------------------------------------------------------
(* The four detectors over the same stored analyses, few or many *)

\* a negative, a positive and an empty analysis
DetectorKinds ==
    { Kind("sad", 30, NoneValue, 0),
      Kind("happy", 30, NoneValue, 0),
      Kind("neutral", 0, NoneValue, 0) }

\* every stored analysis lies within the `days` the detectors look back
InitDetectors ==
    /\ now = Days(MaxDates - 1)
    /\ progress_scores = <<>>
    /\ \E n \in 0..MaxEntries :
          \E ts \in Timestamps(n, Dates), ks \in [1..n -> DetectorKinds] :
              request = [op |-> "detect",
                         collection |-> Entries(ts, ks),
                         emotion |-> "sad",
                         days |-> MaxDates - 1,
                         intensity_increase |-> 20]
    /\ response = NoResponse
    /\ calls = NoCalls
    /\ notifications = <<>>

NextDetectors ==
    \/ DetectEmotionShift
    \/ CheckPersistentNegative
    \/ DetectEmotionVolatility
    \/ GenerateEmotionTrendSummary

SpecDetectors == InitDetectors /\ [][NextDetectors]_vars

----------------------------------------------------------------------------
(* Properties of the detectors on little data, checked under SpecDetectors *)

----------------------------------------------------------------------------
(* combined_analysis.py, notification_service.py: the combined weekly      *)
(* report and the caregiver notifications it sends                         *)

\* the users collection: p1 has two caregivers, p2 has no document
users == [p1 |-> [caregiverIds |-> <<"c1", "c2">>]]

get_patient_caregivers(patient_id) ==
    IF patient_id \in DOMAIN users THEN users[patient_id].caregiverIds ELSE <<>>

\* create_notification: the document written for one caregiver
create_notification(recipient_id, notification_type, priority, patient_id, risk_level) ==
    [recipientId |-> recipient_id,
     type |-> notification_type,
     priority |-> priority,
     read |-> FALSE,
     patientId |-> patient_id,
     riskLevel |-> risk_level]

\* a plausible slip: every notification sent as urgent
notify_caregivers_combined_risk_all_urgent(collection, patient_id, risk_assessment, fails_at) ==
    LET caregiver_ids == get_patient_caregivers(patient_id)
        risk_level == risk_assessment.combinedRiskLevel
        written == IF fails_at.isNone \/ fails_at.value > Len(caregiver_ids)
                   THEN Len(caregiver_ids)
                   ELSE fails_at.value
        documents == [i \in 1..written |->
                        create_notification(caregiver_ids[i], "combined_risk_alert", "urgent",
                                            patient_id, risk_level)]
    IN  IF ~fails_at.isNone /\ fails_at.value = 0
        THEN [notifications |-> collection, raised |-> TRUE]
        ELSE IF caregiver_ids = <<>> \/ risk_level \notin {"high", "critical"}
        THEN [notifications |-> collection, raised |-> FALSE]
        ELSE [notifications |-> collection \o documents,
              raised |-> ~fails_at.isNone /\ fails_at.value < Len(caregiver_ids)]

\* notify_caregivers_combined_risk: one notification for each caregiver, in
\* order.  fails_at is what the store does: NoneValue for a store that serves
\* every access, Some(k) for one that raises once k notifications are written.
notify_caregivers_combined_risk(collection, patient_id, risk_assessment, fails_at) ==
    LET caregiver_ids == get_patient_caregivers(patient_id)
        risk_level == risk_assessment.combinedRiskLevel
        written == IF fails_at.isNone \/ fails_at.value > Len(caregiver_ids)
                   THEN Len(caregiver_ids)
                   ELSE fails_at.value
        documents == [i \in 1..written |->
                        create_notification(caregiver_ids[i], "combined_risk_alert",
                                            IF risk_level = "critical" THEN "urgent" ELSE "high",
                                            patient_id, risk_level)]
    IN  IF ~fails_at.isNone /\ fails_at.value = 0
        THEN [notifications |-> collection, raised |-> TRUE]
        ELSE IF caregiver_ids = <<>> \/ risk_level \notin {"high", "critical"}
        THEN [notifications |-> collection, raised |-> FALSE]
        ELSE [notifications |-> collection \o documents,
              raised |-> ~fails_at.isNone /\ fails_at.value < Len(caregiver_ids)]

\* a plausible slip: the score saved only once the emotion queries are through
generate_combined_weekly_report_atomic(scores, sent, patient_id, score_data, emotions, emotion_fails, fails_at, t, trend_t) ==
    LET progress_report == generate_weekly_report(scores, patient_id, score_data, trend_t)
        emotion_summary == generate_emotion_trend_summary(emotions, DAYS_IN_WEEK, t)
        persistent_negative ==
            check_persistent_negative_emotions(emotions, PERSISTENT_DAYS_THRESHOLD, t)
        volatility == detect_emotion_volatility(emotions, DAYS_IN_WEEK, t)
        risk_assessment ==
            assess_combined_risk(progress_report, emotion_summary, persistent_negative)
        attempted == risk_assessment.combinedRiskLevel \in {"high", "critical"}
        notified == notify_caregivers_combined_risk(sent, patient_id, risk_assessment, fails_at)
    IN  IF emotion_fails
        THEN [report |-> [kind |-> "error", error |-> "HTTP 500"],
              progress_scores |-> scores,
              notifications |-> sent]
        ELSE
        [report |-> [kind |-> "combined_report",
                     patientId |-> progress_report.patientId,
                     weekStart |-> progress_report.weekStart,
                     weekEnd |-> progress_report.weekEnd,
                     weeklyScore |-> progress_report.weeklyScore,
                     patientState |-> progress_report.patientState,
                     trend |-> progress_report.trend,
                     previousScore |-> progress_report.previousScore,
                     breakdown |-> progress_report.breakdown,
                     declineDetection |-> progress_report.declineDetection,
                     scoreId |-> progress_report.scoreId,
                     emotionAnalysis |->
                         [trendSummary |-> emotion_summary,
                          weeklyTrends |->
                              [total_entries |-> total_entries(emotions, DAYS_IN_WEEK, t)],
                          persistentNegativeEmotions |-> persistent_negative,
                          volatility |-> volatility],
                     combinedRiskAssessment |-> risk_assessment],
         progress_scores |-> save_weekly_score(scores, patient_id, score_data),
         notifications |-> IF attempted THEN notified.notifications ELSE sent]

\* a plausible slip: the notification error left to reach the caller
generate_combined_weekly_report_propagating(scores, sent, patient_id, score_data, emotions, emotion_fails, fails_at, t, trend_t) ==
    LET progress_report == generate_weekly_report(scores, patient_id, score_data, trend_t)
        emotion_summary == generate_emotion_trend_summary(emotions, DAYS_IN_WEEK, t)
        persistent_negative ==
            check_persistent_negative_emotions(emotions, PERSISTENT_DAYS_THRESHOLD, t)
        volatility == detect_emotion_volatility(emotions, DAYS_IN_WEEK, t)
        risk_assessment ==
            assess_combined_risk(progress_report, emotion_summary, persistent_negative)
        attempted == risk_assessment.combinedRiskLevel \in {"high", "critical"}
        notified == notify_caregivers_combined_risk(sent, patient_id, risk_assessment, fails_at)
    IN  IF emotion_fails
        THEN [report |-> [kind |-> "error", error |-> "HTTP 500"],
              progress_scores |-> save_weekly_score(scores, patient_id, score_data),
              notifications |-> sent]
        ELSE
        [report |-> IF attempted /\ notified.raised
                    THEN [kind |-> "error", error |-> "HTTP 500"]
                    ELSE [kind |-> "combined_report",
                          patientId |-> progress_report.patientId,
                          weekStart |-> progress_report.weekStart,
                          weekEnd |-> progress_report.weekEnd,
                          weeklyScore |-> progress_report.weeklyScore,
                          patientState |-> progress_report.patientState,
                          trend |-> progress_report.trend,
                          previousScore |-> progress_report.previousScore,
                          breakdown |-> progress_report.breakdown,
                          declineDetection |-> progress_report.declineDetection,
                          scoreId |-> progress_report.scoreId,
                          emotionAnalysis |->
                              [trendSummary |-> emotion_summary,
                               weeklyTrends |->
                                   [total_entries |-> total_entries(emotions, DAYS_IN_WEEK, t)],
                               persistentNegativeEmotions |-> persistent_negative,
                               volatility |-> volatility],
                          combinedRiskAssessment |-> risk_assessment],
         progress_scores |-> save_weekly_score(scores, patient_id, score_data),
         notifications |-> IF attempted THEN notified.notifications ELSE sent]

\* the combined report, the score it stores and the notifications it leaves;
\* t is the clock of the emotion queries, trend_t that of the score trend query;
\* emotion_fails is a store that raises on an emotion query, which happens
\* after generate_weekly_report has saved the score and reaches the endpoint
generate_combined_weekly_report(scores, sent, patient_id, score_data, emotions, emotion_fails, fails_at, t, trend_t) ==
    LET progress_report == generate_weekly_report(scores, patient_id, score_data, trend_t)
        emotion_summary == generate_emotion_trend_summary(emotions, DAYS_IN_WEEK, t)
        persistent_negative ==
            check_persistent_negative_emotions(emotions, PERSISTENT_DAYS_THRESHOLD, t)
        volatility == detect_emotion_volatility(emotions, DAYS_IN_WEEK, t)
        risk_assessment ==
            assess_combined_risk(progress_report, emotion_summary, persistent_negative)
        attempted == risk_assessment.combinedRiskLevel \in {"high", "critical"}
        notified == notify_caregivers_combined_risk(sent, patient_id, risk_assessment, fails_at)
    IN  IF emotion_fails
        THEN [report |-> [kind |-> "error", error |-> "HTTP 500"],
              progress_scores |-> save_weekly_score(scores, patient_id, score_data),
              notifications |-> sent]
        ELSE
        [report |-> [kind |-> "combined_report",
                     patientId |-> progress_report.patientId,
                     weekStart |-> progress_report.weekStart,
                     weekEnd |-> progress_report.weekEnd,
                     weeklyScore |-> progress_report.weeklyScore,
                     patientState |-> progress_report.patientState,
                     trend |-> progress_report.trend,
                     previousScore |-> progress_report.previousScore,
                     breakdown |-> progress_report.breakdown,
                     declineDetection |-> progress_report.declineDetection,
                     scoreId |-> progress_report.scoreId,
                     emotionAnalysis |->
                         [trendSummary |-> emotion_summary,
                          weeklyTrends |->
                              [total_entries |-> total_entries(emotions, DAYS_IN_WEEK, t)],
                          persistentNegativeEmotions |-> persistent_negative,
                          volatility |-> volatility],
                     combinedRiskAssessment |-> risk_assessment],
         progress_scores |-> save_weekly_score(scores, patient_id, score_data),
         notifications |-> IF attempted THEN notified.notifications ELSE sent]


MaxCombinedCalls == 2

\* a week of emotion analyses ending at t, newest first: none; a calm week;
\* three days of intense sadness, the newest the strongest
EmotionWeeks(t) ==
    { <<>>,
      << Entry(t, Kind("happy", 70, NoneValue, 0)),
         Entry(t - Days(1), Kind("happy", 70, NoneValue, 0)),
         Entry(t - Days(2), Kind("happy", 70, NoneValue, 0)) >>,
      << Entry(t, Kind("sad", 90, NoneValue, 0)),
         Entry(t - Days(1), Kind("sad", 70, NoneValue, 0)),
         Entry(t - Days(2), Kind("sad", 70, NoneValue, 0)) >> }

\* what the store does to the notification step: it serves every access, it
\* raises before anything is written, it raises after the first notification
StoreFailures == {NoneValue, Some(0), Some(1)}

\* the weeks of WeekInputs, and one in which the medication is taken and a
\* game is played on three days: a moderate decline
CombinedWeekInputs ==
    WeekInputs \cup
    { [reminders |-> << [type |-> "medication", isCompleted |-> TRUE, isMissed |-> FALSE] >>,
       brain_sessions |-> 3] }

InitCombined ==
    /\ now = 0
    /\ progress_scores = <<>>
    /\ request = NoRequest
    /\ response = NoResponse
    /\ calls = NoCalls
    /\ notifications = <<>>

\* GET /combined/weekly-report/{patient_id}; the call takes one tick of the
\* clock, and each later query reads the clock within that tick or at its end
GenerateCombinedWeeklyReport(patient_id) ==
    /\ Len(progress_scores) < MaxCombinedCalls
    /\ now % TicksPerDay < TicksPerDay - 1
    /\ \E week \in CombinedWeekInputs, clock_gap \in ClockGaps, trend_gap \in ClockGaps,
          emotion_fails \in BOOLEAN :
       \E emotions \in (IF emotion_fails THEN {<<>>} ELSE EmotionWeeks(now)),
          fails_at \in (IF emotion_fails THEN {NoneValue} ELSE StoreFailures) :
          LET score_data == calculate_weekly_score(patient_id, NoneValue, week.reminders,
                                                   week.brain_sessions, clock_gap, now)
              result == generate_combined_weekly_report(progress_scores, notifications,
                                                        patient_id, score_data, emotions,
                                                        emotion_fails, fails_at, now + trend_gap,
                                                        now + trend_gap)
          IN  /\ request' = [op |-> "generate_combined_weekly_report",
                             patient_id |-> patient_id,
                             score_data |-> score_data,
                             emotions |-> emotions,
                             emotion_fails |-> emotion_fails,
                             fails_at |-> fails_at,
                             trend_gap |-> trend_gap]
              /\ IF score_data.kind = "error"
                 THEN /\ response' = [kind |-> "error", error |-> "HTTP 500"]
                      /\ UNCHANGED <<progress_scores, notifications>>
                 ELSE /\ response' = result.report
                      /\ progress_scores' = result.progress_scores
                      /\ notifications' = result.notifications
    /\ now' = now + 1
    /\ UNCHANGED calls

NextCombined ==
    \/ \E patient_id \in Patients : GenerateCombinedWeeklyReport(patient_id)
    \/ AdvanceWeek

SpecCombined == InitCombined /\ [][NextCombined]_vars


----------------------------------------------------------------------------
\* the call just made, had the store served every notification access
Served ==
    generate_combined_weekly_report(progress_scores, notifications, request'.patient_id,
                                    request'.score_data, request'.emotions,
                                    request'.emotion_fails, NoneValue,
                                    now + request'.trend_gap, now + request'.trend_gap)

\* C13: a combined report call whose score was computed and whose emotion
\* queries were served returns a combined report, never an error, and that
\* report and the stored scores are the ones
\* the call gives when every notification is written: the same whether the
\* notification step succeeds, raises or is not attempted; the score the
\* report names is the one stored.
C13_NotificationFailureNeverAborts ==
    [][ (now' = now + 1 /\ request'.op = "generate_combined_weekly_report"
         /\ request'.score_data.kind # "error" /\ ~request'.emotion_fails)
        => /\ response'.kind = "combined_report"
           /\ response' = Served.report
           /\ progress_scores' = Served.progress_scores
           /\ response'.scoreId = Len(progress_scores')
           /\ progress_scores'[response'.scoreId].score = response'.weeklyScore
           /\ progress_scores'[response'.scoreId].patientId = request'.patient_id ]_vars

\* a critical report returned although the store raised after the first of the
\* two notifications was written
C13_Witness ==
    /\ request.op = "generate_combined_weekly_report"
    /\ request.patient_id = "p1"
    /\ request.fails_at = Some(1)
    /\ response.kind = "combined_report"
    /\ response.combinedRiskAssessment.combinedRiskLevel = "critical"
    /\ Len(progress_scores) = 1
    /\ Len(notifications) = 1
    /\ notifications[1].recipientId = "c1"
    /\ notifications[1].priority = "urgent"


----------------------------------------------------------------------------
(* database.py: emotion trends and the daily summary *)

\* analyze_emotion: the mood risk flag stored with an analysis
mood_risk(kind) ==
    \/ kind.primaryEmotion \in NEGATIVE_EMOTIONS /\ kind.primaryIntensity >= 70
    \/ /\ ~kind.secondaryEmotion.isNone
       /\ kind.secondaryEmotion.value \in NEGATIVE_EMOTIONS
       /\ kind.secondaryIntensity >= 60

\* save_emotion_analysis_standalone: the stored analysis with its flag
AnalysisEntry(timestamp, kind) ==
    [timestamp |-> timestamp,
     primaryEmotion |-> kind.primaryEmotion,
     primaryIntensity |-> kind.primaryIntensity,
     secondaryEmotion |-> kind.secondaryEmotion,
     secondaryIntensity |-> kind.secondaryIntensity,
     moodRisk |-> mood_risk(kind)]

\* the emotions an entry counts for: its primary, then its secondary if any
emotions_of(entry) ==
    <<entry.primaryEmotion>> \o
    (IF entry.secondaryEmotion.isNone THEN <<>> ELSE <<entry.secondaryEmotion.value>>)

\* every emotion counted, one element for each count, in the order of the loop
RECURSIVE counted_emotions(_)
counted_emotions(entries) ==
    IF entries = <<>> THEN <<>>
    ELSE emotions_of(Head(entries)) \o counted_emotions(Tail(entries))

\* the keys of emotion_counts in the order the dict received them
RECURSIVE dict_keys(_)
dict_keys(counted) ==
    IF counted = <<>> THEN <<>>
    ELSE LET front == dict_keys(SubSeq(counted, 1, Len(counted) - 1))
             last == counted[Len(counted)]
         IN  IF \E i \in 1..Len(front) : front[i] = last THEN front ELSE Append(front, last)

\* a plausible slip: the count set to one at each occurrence, not added to
count_of_reset(counted, emotion) == IF \E i \in 1..Len(counted) : counted[i] = emotion THEN 1 ELSE 0

\* emotion_counts[emotion]
count_of(counted, emotion) == Len(SelectSeq(counted, LAMBDA e : e = emotion))

\* trends.sort(key=count, reverse=True): stable, the larger count first
RECURSIVE sort_by_count_desc(_)
sort_by_count_desc(trends) ==
    IF trends = <<>> THEN <<>>
    ELSE LET sorted == sort_by_count_desc(SubSeq(trends, 1, Len(trends) - 1))
             last == trends[Len(trends)]
             ahead == SelectSeq(sorted, LAMBDA x : x.count >= last.count)
             behind == SelectSeq(sorted, LAMBDA x : x.count < last.count)
         IN  ahead \o <<last>> \o behind


\* get_emotion_trends: the counts of the analyses of the last `days` days; the
\* intensity averages and percentages are left out
get_emotion_trends(collection, days, t) ==
    LET entries == get_emotion_entries(collection, Some(t - Days(days)), Some(t), NoneValue)
        counted == counted_emotions(entries)
        keys == dict_keys(counted)
    IN  IF entries = <<>>
        THEN [kind |-> "emotion_trends",
              period_days |-> days,
              total_entries |-> 0,
              emotion_counts |-> <<>>,
              mood_risk_count |-> 0,
              trends |-> <<>>]
        ELSE [kind |-> "emotion_trends",
              period_days |-> days,
              total_entries |-> total_entries(collection, days, t),
              emotion_counts |-> [i \in 1..Len(keys) |->
                                    [emotion |-> keys[i], count |-> count_of(counted, keys[i])]],
              mood_risk_count |-> Len(SelectSeq(entries, LAMBDA e : e.moodRisk)),
              trends |-> sort_by_count_desc(
                            [i \in 1..Len(keys) |->
                               [emotion |-> keys[i], count |-> count_of(counted, keys[i])]])]

\* a calm analysis, one with a second emotion, one whose two labels name the
\* same emotion, and an intense one
EmotionTrendKinds ==
    { Kind("happy", 70, NoneValue, 0),
      Kind("happy", 50, Some("sad"), 30),
      Kind("sad", 50, Some("sad"), 30),
      Kind("sad", 80, NoneValue, 0) }

AnalysisEntries(ts, ks) == [i \in 1..Len(ts) |-> AnalysisEntry(Days(ts[i]), ks[i])]

InitEmotionTrends ==
    /\ now = Days(MaxDates - 1)
    /\ progress_scores = <<>>
    /\ \E n \in 0..MaxEntries :
          \E ts \in Timestamps(n, Dates), ks \in [1..n -> EmotionTrendKinds], days \in 1..2 :
              request = [op |-> "get_emotion_trends",
                         collection |-> AnalysisEntries(ts, ks),
                         days |-> days]
    /\ response = NoResponse
    /\ calls = NoCalls
    /\ notifications = <<>>

\* GET /emotion-trends/{patient_id}
GetEmotionTrends ==
    /\ response = NoResponse
    /\ response' = get_emotion_trends(request.collection, request.days, now)
    /\ UNCHANGED <<now, progress_scores, request, calls, notifications>>

NextEmotionTrends == GetEmotionTrends

SpecEmotionTrends == InitEmotionTrends /\ [][NextEmotionTrends]_vars

----------------------------------------------------------------------------
(* Properties of the emotion trends, checked under SpecEmotionTrends *)

\* the analyses within the last `days` days
TrendsWindow ==
    SelectSeq(request.collection,
              LAMBDA e : e.timestamp >= now - Days(request.days) /\ e.timestamp <= now)

\* the sum of the counts of the trend list
TrendCountSum == SumSeq([i \in 1..Len(response.trends) |-> response.trends[i].count])

\* the analyses of the window that carry a secondary emotion
WithSecondary == SelectSeq(TrendsWindow, LAMBDA e : ~e.secondaryEmotion.isNone)

\* C21: for a non-empty entry list the counts of the trend list add up to the
\* number of entries plus the number of entries with a secondary emotion, so
\* to at least the number of entries; for the empty list total_entries is 0
\* and the trend list is empty.
C21_TrendCountsCoverEntries ==
    response.kind = "emotion_trends"
    => /\ response.total_entries = Len(TrendsWindow)
       /\ TrendsWindow # <<>>
          => /\ TrendCountSum = Len(TrendsWindow) + Len(WithSecondary)
             /\ TrendCountSum >= Len(TrendsWindow)
       /\ TrendsWindow = <<>> => response.total_entries = 0 /\ response.trends = <<>>

\* three analyses in the window, one of them counted for two emotions
C21_Witness ==
    /\ response.kind = "emotion_trends"
    /\ Len(TrendsWindow) = 3
    /\ Len(WithSecondary) = 1
    /\ TrendCountSum = 4
    /\ Len(response.trends) = 2


----------------------------------------------------------------------------
(* database.py: the daily summary *)

MaxDailyEntries == 2

\* date.replace(hour=0, minute=0, second=0, microsecond=0)
start_of_day(date) == date_of(date) * TicksPerDay

\* the primary emotions in the order the dict received them
RECURSIVE primary_emotions(_)
primary_emotions(entries) ==
    IF entries = <<>> THEN <<>>
    ELSE <<Head(entries).primaryEmotion>> \o primary_emotions(Tail(entries))

\* max_intensity of one emotion, starting from 0
max_intensity(entries, emotion) ==
    LET intensities == { entries[i].primaryIntensity :
                           i \in { j \in 1..Len(entries) : entries[j].primaryEmotion = emotion } }
    IN  CHOOSE m \in intensities \cup {0} : \A x \in intensities \cup {0} : m >= x

\* get_daily_emotion_summary: the analyses from the midnight of `date` to the
\* next midnight, both included; the intensity averages are left out
get_daily_emotion_summary(collection, date) ==
    LET start_date == start_of_day(date)
        end_date == start_date + Days(1)
        entries == get_emotion_entries(collection, Some(start_date), Some(end_date), NoneValue)
        counted == primary_emotions(entries)
        keys == dict_keys(counted)
    IN  IF entries = <<>>
        THEN [kind |-> "daily_summary",
              date |-> date_of(date),
              total_entries |-> 0,
              emotions |-> <<>>,
              mood_risk |-> FALSE]
        ELSE [kind |-> "daily_summary",
              date |-> date_of(date),
              total_entries |-> Len(entries),
              emotions |-> sort_by_count_desc(
                              [i \in 1..Len(keys) |->
                                 [emotion |-> keys[i],
                                  count |-> count_of(counted, keys[i]),
                                  max_intensity |-> max_intensity(entries, keys[i])]]),
              mood_risk |-> \E i \in 1..Len(entries) : entries[i].moodRisk]

\* the instants of the first days, up to the midnight that ends the last
DailyInstants == 0..Days(MaxDates - 2)

\* an analysis without mood risk and one with it
DailyKinds == { Kind("happy", 70, NoneValue, 0), Kind("sad", 80, NoneValue, 0) }

InitDaily ==
    /\ now = Days(MaxDates - 1)
    /\ progress_scores = <<>>
    /\ \E n \in 0..MaxDailyEntries :
          \E ts \in Timestamps(n, DailyInstants), ks \in [1..n -> DailyKinds],
             date \in DailyInstants :
              request = [op |-> "get_daily_emotion_summary",
                         collection |-> [i \in 1..n |-> AnalysisEntry(ts[i], ks[i])],
                         date |-> date]
    /\ response = NoResponse
    /\ calls = NoCalls
    /\ notifications = <<>>

\* GET /daily-summary/{patient_id}
GetDailySummary ==
    /\ response = NoResponse
    /\ response' = get_daily_emotion_summary(request.collection, request.date)
    /\ UNCHANGED <<now, progress_scores, request, calls, notifications>>

NextDaily == GetDailySummary

SpecDaily == InitDaily /\ [][NextDaily]_vars

----------------------------------------------------------------------------
(* Properties of the daily summary, checked under SpecDaily *)

\* the analyses stamped within the calendar day of the request
OfTheDay ==
    SelectSeq(request.collection, LAMBDA e : date_of(e.timestamp) = date_of(request.date))

\* C22: the daily summary of a date takes into account exactly the entries
\* stamped within that calendar day, an entry stamped at midnight belonging to
\* one day only, and its mood risk is the OR of the flags of those entries.
C22_DailySummaryOfOneCalendarDay ==
    response.kind = "daily_summary"
    => /\ response.total_entries = Len(OfTheDay)
       /\ response.mood_risk = (\E i \in 1..Len(OfTheDay) : OfTheDay[i].moodRisk)


----------------------------------------------------------------------------
(* text_preprocessor.py: a text is the sequence of its characters *)

MaxTextLen == 5

\* the characters of the texts checked: two letters, one of them upper case,
\* the blank and two punctuation marks
Chars == {"o", "K", " ", "!", ","}

\* the class [,.!?;:] of the punctuation patterns
Punctuation == {",", ".", "!", "?", ";", ":"}

\* \s
Whitespace == {" "}

\* \w, for the characters above: what is neither blank nor punctuation
word_char(c) == c \notin Whitespace /\ c \notin Punctuation

FILLER_WORDS ==
    { <<"u", "m">>, <<"u", "h">>, <<"e", "r">>, <<"a", "h">>, <<"e", "h">>,
      <<"h", "m", "m">>, <<"h", "m">>, <<"l", "i", "k", "e">>,
      <<"y", "o", "u", " ", "k", "n", "o", "w">>,
      <<"w", "e", "l", "l">>, <<"s", "o">>,
      <<"a", "c", "t", "u", "a", "l", "l", "y">>,
      <<"b", "a", "s", "i", "c", "a", "l", "l", "y">>,
      <<"l", "i", "t", "e", "r", "a", "l", "l", "y">>,
      <<"s", "o", "r", "t", " ", "o", "f">>, <<"k", "i", "n", "d", " ", "o", "f">>,
      <<"i", " ", "m", "e", "a", "n">>, <<"y", "o", "u", " ", "s", "e", "e">>,
      <<"r", "i", "g", "h", "t">>, <<"o", "k", "a", "y">>, <<"o", "k">> }

\* str.lower, for the characters above
lower(text) == [i \in 1..Len(text) |-> IF text[i] = "K" THEN "k" ELSE text[i]]

\* str.strip
RECURSIVE strip(_)
strip(text) ==
    IF text = <<>> THEN <<>>
    ELSE IF Head(text) \in Whitespace THEN strip(Tail(text))
    ELSE IF text[Len(text)] \in Whitespace THEN strip(SubSeq(text, 1, Len(text) - 1))
    ELSE text

\* the length of the run of characters of the class S at the head of the text
RECURSIVE run_of(_, _)
run_of(text, S) ==
    IF text = <<>> \/ Head(text) \notin S THEN 0 ELSE 1 + run_of(Tail(text), S)

\* the length of the run of characters that are not blank at the head
RECURSIVE word_length(_)
word_length(text) ==
    IF text = <<>> \/ Head(text) \in Whitespace THEN 0 ELSE 1 + word_length(Tail(text))

\* str.split(): the maximal runs of characters that are not blank
RECURSIVE split(_)
split(text) ==
    IF text = <<>> THEN <<>>
    ELSE IF Head(text) \in Whitespace THEN split(Tail(text))
    ELSE LET n == word_length(text)
         IN  <<SubSeq(text, 1, n)>> \o split(SubSeq(text, n + 1, Len(text)))

\* ' '.join(words)
RECURSIVE join(_)
join(words) ==
    IF words = <<>> THEN <<>>
    ELSE IF Len(words) = 1 THEN words[1]
    ELSE words[1] \o <<" ">> \o join(Tail(words))

\* the filler words dropped, each word compared without its punctuation
clean_filler_words(text) ==
    join(SelectSeq(split(text),
                   LAMBDA word : SelectSeq(word, word_char) \notin FILLER_WORDS))

\* re.sub(r'(.)\1{2,}', r'\1\1', text): a run of three or more of one
\* character becomes two
RECURSIVE remove_repeated_chars(_)
remove_repeated_chars(text) ==
    IF text = <<>> THEN <<>>
    ELSE LET n == run_of(text, {Head(text)})
             rest == remove_repeated_chars(SubSeq(text, n + 1, Len(text)))
         IN  IF n >= 3 THEN <<Head(text), Head(text)>> \o rest
             ELSE SubSeq(text, 1, n) \o rest

\* re.sub(r'\s+', ' ', text), then strip
RECURSIVE single_spaces(_)
single_spaces(text) ==
    IF text = <<>> THEN <<>>
    ELSE IF Head(text) \in Whitespace
         THEN <<" ">> \o single_spaces(SubSeq(text, run_of(text, Whitespace) + 1, Len(text)))
         ELSE <<Head(text)>> \o single_spaces(Tail(text))

normalize_spaces(text) == strip(single_spaces(text))

\* re.sub(r'\s+([,.!?;:])', r'\1', text): blanks before a punctuation mark go
RECURSIVE space_before_punctuation(_)
space_before_punctuation(text) ==
    IF text = <<>> THEN <<>>
    ELSE LET n == run_of(text, Whitespace)
         IN  IF n > 0 /\ n < Len(text) /\ text[n + 1] \in Punctuation
             THEN <<text[n + 1]>> \o space_before_punctuation(SubSeq(text, n + 2, Len(text)))
             ELSE <<Head(text)>> \o space_before_punctuation(Tail(text))

\* re.sub(r'([,.!?;:])\s*([,.!?;:])', r'\1\2', text): blanks between two
\* punctuation marks go, the matches taken from the left without overlap
RECURSIVE space_between_punctuation(_)
space_between_punctuation(text) ==
    IF text = <<>> THEN <<>>
    ELSE LET n == run_of(Tail(text), Whitespace)
         IN  IF /\ Head(text) \in Punctuation
                /\ n + 2 <= Len(text)
                /\ text[n + 2] \in Punctuation
             THEN <<Head(text), text[n + 2]>>
                  \o space_between_punctuation(SubSeq(text, n + 3, Len(text)))
             ELSE <<Head(text)>> \o space_between_punctuation(Tail(text))

preprocess_text(text) ==
    IF text = <<>> \/ strip(text) = <<>> THEN <<>>
    ELSE space_between_punctuation(
             space_before_punctuation(
                 normalize_spaces(remove_repeated_chars(clean_filler_words(lower(text))))))

InitPreprocess ==
    /\ now = 0
    /\ progress_scores = <<>>
    /\ \E n \in 0..MaxTextLen : \E text \in [1..n -> Chars] :
          request = [op |-> "preprocess_text", text |-> text]
    /\ response = NoResponse
    /\ calls = NoCalls
    /\ notifications = <<>>

\* the preprocessing step of analyze_emotion
PreprocessText ==
    /\ response = NoResponse
    /\ response' = [kind |-> "processed_text", text |-> preprocess_text(request.text)]
    /\ UNCHANGED <<now, progress_scores, request, calls, notifications>>

NextPreprocess == PreprocessText

SpecPreprocess == InitPreprocess /\ [][NextPreprocess]_vars

----------------------------------------------------------------------------
(* Properties of the preprocessing, checked under SpecPreprocess *)

\* C23: text normalization is idempotent: normalizing a normalized text gives
\* the same text, also when removing the blanks before punctuation has made a
\* run of three or more of one punctuation mark.
C23_NormalizeIsIdempotent ==
    response.kind = "processed_text" => preprocess_text(response.text) = response.text


----------------------------------------------------------------------------
\* the caregivers of the patients of the users collection
StatedCaregivers(patient_id) == IF patient_id = "p1" THEN <<"c1", "c2">> ELSE <<>>

\* the notifications the last step added
Created == SubSeq(notifications', Len(notifications) + 1, Len(notifications'))

\* C24: a combined report call leaves the earlier notifications as they are;
\* for a combined risk of low or medium it creates none, whatever the store
\* does; for high or critical, and a store that serves every access, it
\* creates exactly one combined_risk_alert for each caregiver of the patient,
\* urgent when the level is critical and of priority high otherwise.
C24_NotificationIffHighOrCritical ==
    [][ (now' = now + 1 /\ request'.op = "generate_combined_weekly_report"
         /\ response'.kind = "combined_report")
        => LET level == response'.combinedRiskAssessment.combinedRiskLevel
               caregivers == StatedCaregivers(request'.patient_id)
           IN  /\ Len(notifications') >= Len(notifications)
               /\ SubSeq(notifications', 1, Len(notifications)) = notifications
               /\ level \in {"low", "medium"} => Created = <<>>
               /\ (level \in {"high", "critical"} /\ request'.fails_at.isNone)
                  => /\ Len(Created) = Len(caregivers)
                     /\ \A i \in 1..Len(Created) :
                          /\ Created[i].recipientId = caregivers[i]
                          /\ Created[i].type = "combined_risk_alert"
                          /\ Created[i].patientId = request'.patient_id
                          /\ Created[i].priority =
                                 IF level = "critical" THEN "urgent" ELSE "high" ]_vars

\* a report of combined risk high that left one notification of priority high
\* for each of the two caregivers
C24_Witness ==
    /\ request.op = "generate_combined_weekly_report"
    /\ request.fails_at.isNone
    /\ response.kind = "combined_report"
    /\ response.combinedRiskAssessment.combinedRiskLevel = "high"
    /\ Len(notifications) = 2
    /\ notifications[1].recipientId = "c1" /\ notifications[1].priority = "high"
    /\ notifications[2].recipientId = "c2" /\ notifications[2].priority = "high"


----------------------------------------------------------------------------
(* Further properties of risk fusion, checked under SpecRisk *)

\* C25: for every input, combinedRiskLevel is not below baseRiskLevel in the
\* order low < medium < high < critical and is at most two tiers above it.
C25_CombinedRiskNeverBelowBase ==
    RiskAssessed =>
        /\ response.baseRiskLevel \in RiskLevels
        /\ response.combinedRiskLevel \in RiskLevels
        /\ TierIndex(response.combinedRiskLevel) >= TierIndex(response.baseRiskLevel)
        /\ TierIndex(response.combinedRiskLevel) <= TierIndex(response.baseRiskLevel) + 2

\* a stable patient whose risk both stages escalate: two tiers above the base
C25_Witness ==
    /\ RiskAssessed /\ ReqState = "stable"
    /\ ReqDecline /\ ReqPersistent /\ ReqTrend = "worsening"
    /\ response.baseRiskLevel = "low"
    /\ response.combinedRiskLevel = "high"

\* the assessment of the request had its emotion trend been t
WithTrend(t) ==
    assess_combined_risk(request.progress_report, [trend |-> t], request.persistent_negative)

\* C26: riskRaised and baseRiskLevel are the same for every emotion trend,
\* the other three inputs being those of the request; riskRaised is what the
\* decline/persistence stage set, also when the worsening trend escalates
\* combinedRiskLevel; a trend changes combinedRiskLevel, reason,
\* recommendation and the echoed emotionTrend only.
C26_TrendLeavesRiskRaisedAndBase ==
    RiskAssessed =>
        /\ response.riskRaised =
               ((ReqDecline /\ ReqPersistent)
                \/ (ReqPersistent /\ StatedBaseRisk(ReqState) = "low"))
        /\ \A t \in EmotionTrends :
              /\ WithTrend(t).riskRaised = response.riskRaised
              /\ WithTrend(t).baseRiskLevel = response.baseRiskLevel
              /\ WithTrend(t).declineDetected = response.declineDetected
              /\ WithTrend(t).persistentNegativeDetected = response.persistentNegativeDetected

\* a worsening trend that escalated low to medium and left riskRaised false
C26_Witness ==
    /\ RiskAssessed /\ ReqTrend = "worsening"
    /\ ReqState = "stable" /\ ~ReqDecline /\ ~ReqPersistent
    /\ response.combinedRiskLevel = "medium"
    /\ response.baseRiskLevel = "low"
    /\ ~response.riskRaised
    /\ WithTrend("stable").combinedRiskLevel = "low"


----------------------------------------------------------------------------
(* Further properties of baseline and decline detection, checked under Spec *)

\* C27: a report made when the patient has exactly two stored scores carries
\* declineDetected = false, and so does detect_decline on those two scores
\* for the lowest current score, 0: the baseline is the mean of the two, and
\* both cannot lie 15 points below their mean.
C27_TwoStoredScoresNeverDecline ==
    (ReportReturned /\ Cardinality(OwnDocs(StoredBefore)) = 2) =>
        /\ ~response.declineDetection.baseline.isNone
        /\ response.declineDetection.baseline.den = 2
        /\ ~response.declineDetection.declineDetected
        /\ ~detect_decline(StoredBefore, response.patientId, 0).declineDetected

\* two stored scores, the current one 15 points or more below their mean, and
\* one of the two as well: the first stage passes, the confirmation does not
C27_Witness ==
    /\ ReportReturned
    /\ Cardinality(OwnDocs(StoredBefore)) = 2
    /\ FifteenBelow(response.declineDetection.baseline, response.weeklyScore)
    /\ \E i \in OwnDocs(StoredBefore) :
          FifteenBelow(response.declineDetection.baseline, StoredBefore[i].score)
    /\ ~response.declineDetection.declineDetected


\* the number of stored scores of a patient
StoredOf(patient_id) == Len(where_patient(progress_scores, patient_id))

\* C28: once a patient has 4 or more stored scores, no further step changes
\* the value of get_baseline_score for that patient, each report appending a
\* score whose weekStart is later than every stored one; the baseline changes
\* only while fewer than 4 scores are stored.
C28_BaselineFrozenAfterFourScores ==
    [][ \A patient_id \in Patients :
          /\ StoredOf(patient_id) >= BASELINE_WEEKS
             => get_baseline_score(progress_scores', patient_id, BASELINE_WEEKS)
                    = get_baseline_score(progress_scores, patient_id, BASELINE_WEEKS)
          /\ \A i \in (Len(progress_scores) + 1)..Len(progress_scores') :
               \A j \in 1..Len(progress_scores) :
                  progress_scores'[i].weekStart > progress_scores[j].weekStart ]_vars

\* a report appended to four or more stored scores, its score off the
\* baseline, and the baseline after the append the one the report carries
C28_Witness ==
    /\ ReportReturned
    /\ Cardinality(OwnDocs(StoredBefore)) >= BASELINE_WEEKS
    /\ Len(progress_scores) = response.scoreId
    /\ response.declineDetection.baseline.num
           # response.declineDetection.baseline.den * response.weeklyScore
    /\ get_baseline_score(progress_scores, response.patientId, BASELINE_WEEKS)
           = response.declineDetection.baseline


----------------------------------------------------------------------------
\* the newest stored score
Newest(docs) == docs[Len(docs)]

\* C29: a combined report call whose emotion queries fail on the store
\* returns an error and no report, and has appended the week's score all the
\* same, leaving the notifications alone; a call for the same patient made
\* right after such a failure appends a second score for the same week.
C29_FailedCallKeepsItsScore ==
    [][ (now' = now + 1 /\ request'.op = "generate_combined_weekly_report"
         /\ request'.score_data.kind # "error")
        => /\ request'.emotion_fails
              => /\ response' = [kind |-> "error", error |-> "HTTP 500"]
                 /\ progress_scores' =
                        save_weekly_score(progress_scores, request'.patient_id,
                                          request'.score_data)
                 /\ Len(progress_scores') = Len(progress_scores) + 1
                 /\ Newest(progress_scores').patientId = request'.patient_id
                 /\ Newest(progress_scores').score = request'.score_data.score
                 /\ notifications' = notifications
           /\ (/\ request.op = "generate_combined_weekly_report"
               /\ request.emotion_fails
               /\ request.score_data.kind # "error"
               /\ request.patient_id = request'.patient_id
               /\ request.score_data.weekEnd + 1 = now)
              => /\ Len(progress_scores') = Len(progress_scores) + 1
                 /\ Newest(progress_scores).patientId = request.patient_id
                 /\ Newest(progress_scores').patientId = request.patient_id
                 /\ date_of(Newest(progress_scores').weekStart)
                        = date_of(Newest(progress_scores).weekStart) ]_vars

\* a failed call that returned no report and left a second score of the same
\* patient and the same week in the store
C29_Witness ==
    /\ request.op = "generate_combined_weekly_report"
    /\ request.emotion_fails
    /\ response = [kind |-> "error", error |-> "HTTP 500"]
    /\ Len(progress_scores) = 2
    /\ progress_scores[1].patientId = request.patient_id
    /\ progress_scores[2].patientId = request.patient_id
    /\ date_of(progress_scores[1].weekStart) = date_of(progress_scores[2].weekStart)
    /\ progress_scores[1].score = progress_scores[2].score
    /\ notifications = <<>>


----------------------------------------------------------------------------
(* A further property of the weekly score, checked under SpecScore *)

\* C30: totalPossiblePoints is strictly positive for every input, the
\* brain-training points of the window being always expected, so the score is
\* the quotient and never the value of the zero-denominator branch; with no
\* reminder and no session the score is 0, the state high_risk and the base
\* risk critical.
C30_TotalPossibleIsPositive ==
    ScoreReturned =>
        /\ response.totalPossiblePoints > 0
        /\ response.totalPossiblePoints
               >= task_weight("brain_training") * DAYS_IN_WEEK
        /\ response.score
               = RoundDiv(10000 * response.earnedPoints, response.totalPossiblePoints)
        /\ (request.reminders = <<>> /\ request.brain_sessions = 0)
           => /\ response.earnedPoints = 0
              /\ response.score = 0
              /\ get_patient_state(response.score) = "high_risk"
              /\ base_risk_of(get_patient_state(response.score)) = "critical"
              /\ request.op = "get_weekly_score" => response.patientState = "high_risk"

\* the endpoint's answer for a patient with nothing in the window
C30_Witness ==
    /\ ScoreReturned
    /\ request.op = "get_weekly_score"
    /\ request.reminders = <<>> /\ request.brain_sessions = 0
    /\ response.totalPossiblePoints = 14
    /\ response.score = 0
    /\ response.patientState = "high_risk"

====
